---- MODULE Spec2Model ----
(***************************************************************************)
(* Model of src/src/drizzle-adapter.ts: the translation of a validated      *)
(* pagination request into Drizzle clauses (select, where, orderBy, limit,  *)
(* offset) and their application to a query builder.                        *)
(*                                                                          *)
(* Representation.                                                          *)
(*   - A string is the sequence of its characters (each a one-character     *)
(*     TLA+ string), so that replaceAll, template literals and alias        *)
(*     suffixes are computed character by character.                        *)
(*   - An optional value (T | undefined) is Absent == <<>> or Some(x) ==    *)
(*     <<x>>.                                                               *)
(*   - A thrown Error is a record [kind, path]; a function that may throw   *)
(*     returns a record with an err field, and every caller stops at the    *)
(*     first err that is not NoError, as a JavaScript throw unwinds.        *)
(*   - A Drizzle expression is the record of the primitive that built it:   *)
(*     [fn, col, val, args].                                                *)
(***************************************************************************)
EXTENDS Integers, Sequences, FiniteSets

\* ----------------------------------------------------------- call history

\* The calls made and finished before the current one, oldest first: what
\* each was given and what it did. The code keeps no such thing; it is
\* recorded to compare calls with one another.
VARIABLE history

\* ------------------------------------------------------------------ bounds

MaxNodes == 4        \* nodes (leaves and groups) of a filter tree
MaxSelectLen == 3    \* entries of pagination.select
MaxSortLen == 2      \* entries of pagination.sortBy
MaxPage == 3         \* pagination.page ranges over -MaxPage..MaxPage
MaxLimit == 3        \* pagination.limit ranges over 1..MaxLimit
MaxValueLen == 2     \* characters of the value of a $ilike / $sw condition
MaxCalls == 3        \* calls made one after the other on the same field mapping

\* --------------------------------------------------------- optional values

Absent == <<>>
Some(x) == <<x>>
IsPresent(o) == o # <<>>
Get(o) == o[1]

\* ----------------------------------------------------------------- errors

NoError == [kind |-> "none", path |-> <<>>]
FieldMappingError(fieldPath) == [kind |-> "FieldMappingError", path |-> fieldPath]
UnsupportedOperatorError == [kind |-> "UnsupportedOperatorError", path |-> <<>>]
EmptyCombinatorError == [kind |-> "EmptyCombinatorError", path |-> <<>>]

\* ---------------------------------------------------------------- strings

RECURSIVE replaceAll(_, _, _)
\* String.prototype.replaceAll for a one-character pattern: every occurrence
\* of the character `from` in `s` becomes the string `to`.
replaceAll(s, from, to) ==
  IF s = <<>> THEN <<>>
  ELSE (IF Head(s) = from THEN to ELSE <<Head(s)>>) \o replaceAll(Tail(s), from, to)

DigitChars == <<"0", "1", "2", "3", "4", "5", "6", "7", "8", "9">>

RECURSIVE NumberToString(_)
\* The decimal text of a non-negative integer, as a template literal prints it.
NumberToString(n) ==
  IF n < 10 THEN <<DigitChars[n + 1]>>
  ELSE NumberToString(n \div 10) \o <<DigitChars[(n % 10) + 1]>>

defaultSelectAlias(path) == replaceAll(path, ".", <<"_">>)

\* Faulty variant: the value goes into the pattern as it is.
escapeLike_NoEscape(value) == value

\* Faulty variant: the backslash is escaped last, after '%' and '_', so the
\* backslashes added for them are escaped again.
escapeLike_BackslashLast(value) ==
  replaceAll(replaceAll(replaceAll(value, "%", <<"\\", "%">>), "_", <<"\\", "_">>),
             "\\", <<"\\", "\\">>)

escapeLike(value) ==
  replaceAll(replaceAll(replaceAll(value, "\\", <<"\\", "\\">>), "%", <<"\\", "%">>),
             "_", <<"\\", "_">>)

\* ------------------------------------------------------------ expressions

NoCol == ""
\* The expression object a primitive returns: which function built it, on
\* which column, with which values (a list of strings) and sub-expressions.
Expr(fn, col, val, args) == [fn |-> fn, col |-> col, val |-> val, args |-> args]

\* One entry of the log of operator-set primitives invoked by a call.
OpCall(prim, n) == [prim |-> prim, n |-> n]

PredicatePrims == {"eq", "isNull", "inArray", "gt", "gte", "lt", "lte", "ilike",
                   "and", "or", "not", "contains"}

\* ---------------------------------------------------------- operator sets

createPgDrizzleOperators ==
  [ eq |-> "drizzleEq", isNull |-> "drizzleIsNull", inArray |-> "drizzleInArray",
    gt |-> "drizzleGt", gte |-> "drizzleGte", lt |-> "drizzleLt", lte |-> "drizzleLte",
    ilike |-> "drizzleIlike", and |-> "andSql", or |-> "orSql", not |-> "drizzleNot",
    asc |-> "drizzleAsc", desc |-> "drizzleDesc",
    contains |-> Some("drizzleArrayContains") ]

createMySqlDrizzleOperators ==
  [ eq |-> "drizzleEq", isNull |-> "drizzleIsNull", inArray |-> "drizzleInArray",
    gt |-> "drizzleGt", gte |-> "drizzleGte", lt |-> "drizzleLt", lte |-> "drizzleLte",
    ilike |-> "drizzleLike", and |-> "andSql", or |-> "orSql", not |-> "drizzleNot",
    asc |-> "drizzleAsc", desc |-> "drizzleDesc",
    contains |-> Absent ]

\* A set written by the caller, every primitive its own, contains included.
customOperators ==
  [ eq |-> "customEq", isNull |-> "customIsNull", inArray |-> "customInArray",
    gt |-> "customGt", gte |-> "customGte", lt |-> "customLt", lte |-> "customLte",
    ilike |-> "customIlike", and |-> "customAnd", or |-> "customOr", not |-> "customNot",
    asc |-> "customAsc", desc |-> "customDesc",
    contains |-> Some("customContains") ]

getOperatorsForDialect(dialect) ==
  IF dialect = "pg" THEN createPgDrizzleOperators ELSE createMySqlDrizzleOperators

\* andSql / orSql: the built-in combinators refuse an empty list.
andSql(fn, expressions) ==
  IF Len(expressions) = 0
  THEN [expr |-> Absent, err |-> EmptyCombinatorError]
  ELSE [expr |-> Some(Expr(fn, NoCol, <<>>, expressions)), err |-> NoError]

orSql(fn, expressions) ==
  IF Len(expressions) = 0
  THEN [expr |-> Absent, err |-> EmptyCombinatorError]
  ELSE [expr |-> Some(Expr(fn, NoCol, <<>>, expressions)), err |-> NoError]

\* --------------------------------------------------------- field resolver

\* Faulty variant: the resolver never throws, whatever strictFieldMapping is.
getMappedColumn_NeverThrows(fieldPath, fields, strictFieldMapping) ==
  IF fieldPath \in DOMAIN fields
  THEN [col |-> Some(fields[fieldPath]), err |-> NoError]
  ELSE [col |-> Absent, err |-> NoError]

getMappedColumn(fieldPath, fields, strictFieldMapping) ==
  IF fieldPath \in DOMAIN fields
  THEN [col |-> Some(fields[fieldPath]), err |-> NoError]
  ELSE IF strictFieldMapping
       THEN [col |-> Absent, err |-> FieldMappingError(fieldPath)]
       ELSE [col |-> Absent, err |-> NoError]

\* --------------------------------------------------- select-shape builder

\* A caller-supplied config.selectAlias, by name: "prefixCol" is the
\* function (path) => `col_${path}`.
customSelectAlias(name, path) ==
  IF name = "prefixCol" THEN <<"c", "o", "l", "_">> \o path ELSE path

\* aliasBuilder = config.selectAlias ?? defaultSelectAlias, applied to a path.
aliasBuilder(selectAlias, path) ==
  IF IsPresent(selectAlias) THEN customSelectAlias(Get(selectAlias), path)
  ELSE defaultSelectAlias(path)

\* selectShape[finalAlias] = mappedColumn on a plain object: a new key is
\* added, an existing key is overwritten.
SetKey(shape, key, value) ==
  [k \in (DOMAIN shape) \cup {key} |-> IF k = key THEN value ELSE shape[k]]

\* aliasUsageCount.get(baseAlias) ?? 0
CountOf(aliasUsageCount, baseAlias) ==
  IF baseAlias \in DOMAIN aliasUsageCount THEN aliasUsageCount[baseAlias] ELSE 0

\* `${baseAlias}_${collisionIndex}`, or the base alias for the first use.
finalAliasOf(baseAlias, collisionIndex) ==
  IF collisionIndex = 0 THEN baseAlias
  ELSE baseAlias \o <<"_">> \o NumberToString(collisionIndex)

RECURSIVE selectLoop(_, _, _, _, _, _)
\* The for-of loop of buildSelectShapeInternal from entry i on, with the
\* loop's two locals; a throw of getMappedColumn leaves the loop at once.
selectLoop(selectedFields, fields, strictFieldMapping, selectAlias, i, acc) ==
  IF i > Len(selectedFields) THEN acc
  ELSE
    LET fieldPath == selectedFields[i]
        mapped == getMappedColumn(fieldPath, fields, strictFieldMapping)
    IN IF mapped.err # NoError
       THEN [acc EXCEPT !.err = mapped.err]
       ELSE IF ~IsPresent(mapped.col)
       THEN selectLoop(selectedFields, fields, strictFieldMapping, selectAlias, i + 1, acc)
       ELSE
         LET baseAlias == aliasBuilder(selectAlias, fieldPath)
             collisionIndex == CountOf(acc.aliasUsageCount, baseAlias)
             finalAlias == finalAliasOf(baseAlias, collisionIndex)
         IN selectLoop(selectedFields, fields, strictFieldMapping, selectAlias, i + 1,
              [ selectShape |-> SetKey(acc.selectShape, finalAlias, Get(mapped.col)),
                aliasUsageCount |-> SetKey(acc.aliasUsageCount, baseAlias, collisionIndex + 1),
                err |-> NoError ])

RECURSIVE aliasUsageCountAfter(_)
\* What one alias map shared by the calls would hold after the given calls:
\* each call's loop goes on from the counts the call before it left.
aliasUsageCountAfter(calls) ==
  IF calls = <<>> THEN <<>>
  ELSE
    LET last == calls[Len(calls)]
        select == last.parsed.pagination.select
        strict == last.config.strictFieldMapping
    IN selectLoop(IF IsPresent(select) THEN Get(select) ELSE <<>>, last.config.fields,
                  IF IsPresent(strict) THEN Get(strict) ELSE TRUE, last.config.selectAlias, 1,
                  [selectShape |-> <<>>,
                   aliasUsageCount |-> aliasUsageCountAfter(SubSeq(calls, 1, Len(calls) - 1)),
                   err |-> NoError]).aliasUsageCount

\* Faulty variant: the alias map is a module-level Map, which keeps the counts
\* of the calls made before.
newAliasUsageCount_ModuleLevel == aliasUsageCountAfter(history)

\* Line 208: const aliasUsageCount = new Map(), a local of the call.
newAliasUsageCount == <<>>

\* Faulty variant: the select list is resolved permissively whatever the mode is.
buildSelectShapeInternal_AlwaysPermissive(selectedFields, fields, strict, selectAlias) ==
  LET r == selectLoop(selectedFields, fields, FALSE, selectAlias, 1,
                      [selectShape |-> <<>>, aliasUsageCount |-> <<>>, err |-> NoError])
  IN [selectShape |-> r.selectShape, err |-> r.err]

buildSelectShapeInternal(selectedFields, fields, strictFieldMapping, selectAlias) ==
  LET r == selectLoop(selectedFields, fields, strictFieldMapping, selectAlias, 1,
                      [selectShape |-> <<>>, aliasUsageCount |-> newAliasUsageCount,
                       err |-> NoError])
  IN [selectShape |-> r.selectShape, err |-> r.err]

\* ----------------------------------------------------- condition compiler

\* if (condition.not): the flag is optional, and absent counts as false.
Truthy(flag) == IsPresent(flag) /\ Get(flag)

\* operators.and(...) / operators.or(...): the built-in sets hold andSql and
\* orSql; any other set's combinator just builds its expression.
CallAnd(operators, expressions) ==
  IF operators.and = "andSql" THEN andSql(operators.and, expressions)
  ELSE [expr |-> Some(Expr(operators.and, NoCol, <<>>, expressions)), err |-> NoError]

CallOr(operators, expressions) ==
  IF operators.or = "orSql" THEN orSql(operators.or, expressions)
  ELSE [expr |-> Some(Expr(operators.or, NoCol, <<>>, expressions)), err |-> NoError]

\* Faulty variant: $btw excludes its bounds (gt and lt for gte and lte).
baseExpression_BtwExclusive(condition, column, operators) ==
  LET value == condition.value
      leaf(prim, fn, val) ==
        [expr |-> Some(Expr(fn, column, val, <<>>)), err |-> NoError,
         calls |-> <<OpCall(prim, 1 + Len(val))>>]
  IN CASE condition.op = "$null" -> leaf("isNull", operators.isNull, <<>>)
       [] condition.op = "$eq" -> leaf("eq", operators.eq, value)
       [] condition.op = "$in" -> leaf("inArray", operators.inArray, value)
       [] condition.op = "$contains" ->
            IF ~IsPresent(operators.contains)
            THEN [expr |-> Absent, err |-> UnsupportedOperatorError, calls |-> <<>>]
            ELSE leaf("contains", Get(operators.contains), value)
       [] condition.op = "$gt" -> leaf("gt", operators.gt, value)
       [] condition.op = "$gte" -> leaf("gte", operators.gte, value)
       [] condition.op = "$lt" -> leaf("lt", operators.lt, value)
       [] condition.op = "$lte" -> leaf("lte", operators.lte, value)
       [] condition.op = "$btw" ->
            LET startValue == value[1]
                endValue == value[2]
                lower == Expr(operators.gt, column, <<startValue>>, <<>>)
                upper == Expr(operators.lt, column, <<endValue>>, <<>>)
                both == CallAnd(operators, <<lower, upper>>)
            IN [expr |-> both.expr, err |-> both.err,
                calls |-> <<OpCall("gt", 2), OpCall("lt", 2), OpCall("and", 2)>>]
       [] condition.op = "$ilike" ->
            leaf("ilike", operators.ilike, <<<<"%">> \o escapeLike(value[1]) \o <<"%">>>>)
       [] condition.op = "$sw" ->
            leaf("ilike", operators.ilike, <<escapeLike(value[1]) \o <<"%">>>>)
       [] OTHER -> [expr |-> Absent, err |-> UnsupportedOperatorError, calls |-> <<>>]

\* The switch of conditionToDrizzleExpr: the base expression of a condition,
\* before negation, with the primitives it invoked, or the error it threw.
baseExpression(condition, column, operators) ==
  LET value == condition.value
      leaf(prim, fn, val) ==
        [expr |-> Some(Expr(fn, column, val, <<>>)), err |-> NoError,
         calls |-> <<OpCall(prim, 1 + Len(val))>>]
  IN CASE condition.op = "$null" -> leaf("isNull", operators.isNull, <<>>)
       [] condition.op = "$eq" -> leaf("eq", operators.eq, value)
       [] condition.op = "$in" -> leaf("inArray", operators.inArray, value)
       [] condition.op = "$contains" ->
            IF ~IsPresent(operators.contains)
            THEN [expr |-> Absent, err |-> UnsupportedOperatorError, calls |-> <<>>]
            ELSE leaf("contains", Get(operators.contains), value)
       [] condition.op = "$gt" -> leaf("gt", operators.gt, value)
       [] condition.op = "$gte" -> leaf("gte", operators.gte, value)
       [] condition.op = "$lt" -> leaf("lt", operators.lt, value)
       [] condition.op = "$lte" -> leaf("lte", operators.lte, value)
       [] condition.op = "$btw" ->
            LET startValue == value[1]
                endValue == value[2]
                lower == Expr(operators.gte, column, <<startValue>>, <<>>)
                upper == Expr(operators.lte, column, <<endValue>>, <<>>)
                both == CallAnd(operators, <<lower, upper>>)
            IN [expr |-> both.expr, err |-> both.err,
                calls |-> <<OpCall("gte", 2), OpCall("lte", 2), OpCall("and", 2)>>]
       [] condition.op = "$ilike" ->
            leaf("ilike", operators.ilike, <<<<"%">> \o escapeLike(value[1]) \o <<"%">>>>)
       [] condition.op = "$sw" ->
            leaf("ilike", operators.ilike, <<escapeLike(value[1]) \o <<"%">>>>)
       [] OTHER -> [expr |-> Absent, err |-> UnsupportedOperatorError, calls |-> <<>>]

\* Faulty variant: the switch has no case for $btw.
conditionToDrizzleExpr_NoBtw(condition, column, operators) ==
  LET base == baseExpression(condition, column, operators)
  IN IF condition.op = "$btw" \/ base.err # NoError
     THEN [expr |-> Absent, err |-> UnsupportedOperatorError, calls |-> <<>>]
     ELSE IF Truthy(condition.not)
     THEN [expr |-> Some(Expr(operators.not, NoCol, <<>>, <<Get(base.expr)>>)),
           err |-> NoError,
           calls |-> Append(base.calls, OpCall("not", 1))]
     ELSE base

\* Faulty variant: a negated $btw negates each bound instead of the conjunction.
conditionToDrizzleExpr_NegatesBounds(condition, column, operators) ==
  LET base == baseExpression(condition, column, operators)
      negate(e) == Expr(operators.not, NoCol, <<>>, <<e>>)
  IN IF base.err # NoError THEN base
     ELSE IF Truthy(condition.not) /\ condition.op = "$btw"
     THEN [expr |-> Some(Expr(operators.and, NoCol, <<>>,
                              <<negate(Get(base.expr).args[1]),
                                negate(Get(base.expr).args[2])>>)),
           err |-> NoError,
           calls |-> <<OpCall("gte", 2), OpCall("not", 1), OpCall("lte", 2),
                       OpCall("not", 1), OpCall("and", 2)>>]
     ELSE IF Truthy(condition.not)
     THEN [expr |-> Some(negate(Get(base.expr))), err |-> NoError,
           calls |-> Append(base.calls, OpCall("not", 1))]
     ELSE base

\* Faulty variant: a $contains without a contains primitive is skipped silently.
conditionToDrizzleExpr_SkipsContains(condition, column, operators) ==
  LET base == baseExpression(condition, column, operators)
  IN IF condition.op = "$contains" /\ ~IsPresent(operators.contains)
     THEN [expr |-> Absent, err |-> NoError, calls |-> <<>>]
     ELSE IF base.err # NoError THEN base
     ELSE IF Truthy(condition.not)
     THEN [expr |-> Some(Expr(operators.not, NoCol, <<>>, <<Get(base.expr)>>)),
           err |-> NoError,
           calls |-> Append(base.calls, OpCall("not", 1))]
     ELSE base

conditionToDrizzleExpr(condition, column, operators) ==
  LET base == baseExpression(condition, column, operators)
  IN IF base.err # NoError THEN base
     ELSE IF Truthy(condition.not)
     THEN [expr |-> Some(Expr(operators.not, NoCol, <<>>, <<Get(base.expr)>>)),
           err |-> NoError,
           calls |-> Append(base.calls, OpCall("not", 1))]
     ELSE base

\* ---------------------------------------------------- filter-tree compiler

\* .filter((expression) => Boolean(expression)): the present entries, in order.
RECURSIVE filterPresent(_)
filterPresent(options) ==
  IF options = <<>> THEN <<>>
  ELSE (IF IsPresent(Head(options)) THEN <<Get(Head(options))>> ELSE <<>>)
       \o filterPresent(Tail(options))

RECURSIVE whereNodeToDrizzleExpr(_, _, _, _)
RECURSIVE mapItems(_, _, _, _, _, _)

RECURSIVE mapItems_StopsAtPruned(_, _, _, _, _, _)
\* Faulty variant: the first child that compiles to nothing ends the map, and
\* the children after it are not compiled.
mapItems_StopsAtPruned(items, fields, operators, strictFieldMapping, i, acc) ==
  IF i > Len(items) THEN acc
  ELSE
    LET child == whereNodeToDrizzleExpr(items[i], fields, operators, strictFieldMapping)
    IN IF child.err # NoError
       THEN [results |-> acc.results, err |-> child.err, calls |-> acc.calls \o child.calls]
       ELSE IF ~IsPresent(child.expr) THEN acc
       ELSE mapItems_StopsAtPruned(items, fields, operators, strictFieldMapping, i + 1,
              [results |-> Append(acc.results, child.expr), err |-> NoError,
               calls |-> acc.calls \o child.calls])

\* node.items.map(...) from item i on: children are compiled left to right,
\* and the first child that throws ends the map.
mapItems(items, fields, operators, strictFieldMapping, i, acc) ==
  IF i > Len(items) THEN acc
  ELSE
    LET child == whereNodeToDrizzleExpr(items[i], fields, operators, strictFieldMapping)
    IN IF child.err # NoError
       THEN [results |-> acc.results, err |-> child.err, calls |-> acc.calls \o child.calls]
       ELSE mapItems(items, fields, operators, strictFieldMapping, i + 1,
              [results |-> Append(acc.results, child.expr), err |-> NoError,
               calls |-> acc.calls \o child.calls])

\* Faulty variant: a group without surviving children becomes an empty connective,
\* an always-true or always-false sentinel.
combineChildren_EmptySentinel(type, childExpressions, operators) ==
  IF Len(childExpressions) = 1
  THEN [expr |-> Some(childExpressions[1]), err |-> NoError, calls |-> <<>>]
  ELSE [expr |-> Some(Expr(IF type = "and" THEN operators.and ELSE operators.or,
                           NoCol, <<>>, childExpressions)),
        err |-> NoError,
        calls |-> <<OpCall(type, Len(childExpressions))>>]

\* Faulty variant: a single surviving child is still wrapped in the connective.
combineChildren_AlwaysWraps(type, childExpressions, operators) ==
  IF Len(childExpressions) = 0 THEN [expr |-> Absent, err |-> NoError, calls |-> <<>>]
  ELSE [expr |-> Some(Expr(IF type = "and" THEN operators.and ELSE operators.or,
                           NoCol, <<>>, childExpressions)),
        err |-> NoError,
        calls |-> <<OpCall(type, Len(childExpressions))>>]

\* Faulty variant: the connective is called whatever the number of surviving
\* children is.
combineChildren_NoArityGuard(type, childExpressions, operators) ==
  IF type = "and"
  THEN LET r == CallAnd(operators, childExpressions)
       IN [expr |-> r.expr, err |-> r.err,
           calls |-> <<OpCall("and", Len(childExpressions))>>]
  ELSE LET r == CallOr(operators, childExpressions)
       IN [expr |-> r.expr, err |-> r.err,
           calls |-> <<OpCall("or", Len(childExpressions))>>]

\* The tail of whereNodeToDrizzleExpr for a group: what the surviving child
\* expressions combine to.
combineChildren(type, childExpressions, operators) ==
  IF Len(childExpressions) = 0 THEN [expr |-> Absent, err |-> NoError, calls |-> <<>>]
  ELSE IF Len(childExpressions) = 1
  THEN [expr |-> Some(childExpressions[1]), err |-> NoError, calls |-> <<>>]
  ELSE IF type = "and"
  THEN LET r == CallAnd(operators, childExpressions)
       IN [expr |-> r.expr, err |-> r.err,
           calls |-> <<OpCall("and", Len(childExpressions))>>]
  ELSE LET r == CallOr(operators, childExpressions)
       IN [expr |-> r.expr, err |-> r.err,
           calls |-> <<OpCall("or", Len(childExpressions))>>]

\* Faulty variant: a $contains leaf is refused for a set without contains
\* before its field is resolved.
whereNodeToDrizzleExpr_DispatchFirst(node, fields, operators, strictFieldMapping) ==
  IF node.type = "filter"
  THEN LET mapped == getMappedColumn(node.field, fields, strictFieldMapping)
       IN IF node.condition.op = "$contains" /\ ~IsPresent(operators.contains)
          THEN [expr |-> Absent, err |-> UnsupportedOperatorError, calls |-> <<>>]
          ELSE IF mapped.err # NoError
          THEN [expr |-> Absent, err |-> mapped.err, calls |-> <<>>]
          ELSE IF ~IsPresent(mapped.col)
          THEN [expr |-> Absent, err |-> NoError, calls |-> <<>>]
          ELSE conditionToDrizzleExpr(node.condition, Get(mapped.col), operators)
  ELSE LET mapped == mapItems(node.items, fields, operators, strictFieldMapping, 1,
                              [results |-> <<>>, err |-> NoError, calls |-> <<>>])
       IN IF mapped.err # NoError
          THEN [expr |-> Absent, err |-> mapped.err, calls |-> mapped.calls]
          ELSE LET combined == combineChildren(node.type, filterPresent(mapped.results),
                                               operators)
               IN [expr |-> combined.expr, err |-> combined.err,
                   calls |-> mapped.calls \o combined.calls]

whereNodeToDrizzleExpr(node, fields, operators, strictFieldMapping) ==
  IF node.type = "filter"
  THEN LET mapped == getMappedColumn(node.field, fields, strictFieldMapping)
       IN IF mapped.err # NoError
          THEN [expr |-> Absent, err |-> mapped.err, calls |-> <<>>]
          ELSE IF ~IsPresent(mapped.col)
          THEN [expr |-> Absent, err |-> NoError, calls |-> <<>>]
          ELSE conditionToDrizzleExpr(node.condition, Get(mapped.col), operators)
  ELSE LET mapped == mapItems(node.items, fields, operators, strictFieldMapping, 1,
                              [results |-> <<>>, err |-> NoError, calls |-> <<>>])
       IN IF mapped.err # NoError
          THEN [expr |-> Absent, err |-> mapped.err, calls |-> mapped.calls]
          ELSE LET combined == combineChildren(node.type, filterPresent(mapped.results),
                                               operators)
               IN [expr |-> combined.expr, err |-> combined.err,
                   calls |-> mapped.calls \o combined.calls]

\* -------------------------------------------------------- clause assembler

directionToOrderExpr(direction, column, operators) ==
  IF direction = "ASC" THEN Expr(operators.asc, column, <<>>, <<>>)
  ELSE Expr(operators.desc, column, <<>>, <<>>)

RECURSIVE mapSortBy(_, _, _, _, _, _)
\* pagination.sortBy.map(...) from entry i on: each entry is resolved with
\* the call's strictFieldMapping, so a throw of getMappedColumn ends the map.
mapSortBy(sortBy, fields, operators, strictFieldMapping, i, acc) ==
  IF i > Len(sortBy) THEN acc
  ELSE
    LET sortItem == sortBy[i]
        mapped == getMappedColumn(sortItem.property, fields, strictFieldMapping)
    IN IF mapped.err # NoError
       THEN [acc EXCEPT !.err = mapped.err]
       ELSE IF ~IsPresent(mapped.col)
       THEN mapSortBy(sortBy, fields, operators, strictFieldMapping, i + 1,
              [acc EXCEPT !.results = Append(@, Absent)])
       ELSE mapSortBy(sortBy, fields, operators, strictFieldMapping, i + 1,
              [results |-> Append(acc.results,
                 Some(directionToOrderExpr(sortItem.direction, Get(mapped.col), operators))),
               err |-> NoError,
               calls |-> Append(acc.calls,
                 OpCall(IF sortItem.direction = "ASC" THEN "asc" ELSE "desc", 1))])

\* Faulty variant: the sort keys are resolved permissively whatever the mode is.
sortByToOrderExprs_AlwaysPermissive(sortBy, fields, operators, strictFieldMapping) ==
  mapSortBy(sortBy, fields, operators, FALSE, 1,
            [results |-> <<>>, err |-> NoError, calls |-> <<>>])

\* pagination.sortBy?.map(...): the sort entries resolved one by one.
sortByToOrderExprs(sortBy, fields, operators, strictFieldMapping) ==
  mapSortBy(sortBy, fields, operators, strictFieldMapping, 1,
            [results |-> <<>>, err |-> NoError, calls |-> <<>>])

\* Faulty variant: the page is used as it is, without the safePage normalisation.
offsetOf_NoSafePage(pagination) ==
  IF pagination.type = "LIMIT_OFFSET" /\ IsPresent(pagination.page)
     /\ IsPresent(pagination.limit)
  THEN Some((Get(pagination.page) - 1) * Get(pagination.limit))
  ELSE Absent

\* Faulty variant: a missing page counts as the first page.
offsetOf_DefaultPage(pagination) ==
  IF pagination.type = "LIMIT_OFFSET" /\ IsPresent(pagination.limit)
  THEN LET page == IF IsPresent(pagination.page) THEN Get(pagination.page) ELSE 1
           safePage == IF page > 0 THEN page ELSE 1
       IN Some((safePage - 1) * Get(pagination.limit))
  ELSE Absent

\* Faulty variant: the offset is computed whatever the pagination type is.
offsetOf_AnyType(pagination) ==
  IF IsPresent(pagination.page) /\ IsPresent(pagination.limit)
  THEN LET safePage == IF Get(pagination.page) > 0 THEN Get(pagination.page) ELSE 1
       IN Some((safePage - 1) * Get(pagination.limit))
  ELSE Absent

\* let offset ... (safePage - 1) * limit, for LIMIT_OFFSET with a numeric
\* page and a limit.
offsetOf(pagination) ==
  IF pagination.type = "LIMIT_OFFSET" /\ IsPresent(pagination.page)
     /\ IsPresent(pagination.limit)
  THEN LET safePage == IF Get(pagination.page) > 0 THEN Get(pagination.page) ELSE 1
       IN Some((safePage - 1) * Get(pagination.limit))
  ELSE Absent

\* Faulty variant: the limit is kept only for a request that has a page.
limitOf_OnlyWithPage(pagination) ==
  IF IsPresent(pagination.page) THEN pagination.limit ELSE Absent

\* const limit = pagination.limit
limitOf(pagination) == pagination.limit

\* The select argument: the requested paths, or [] when there is no select.
selectedFieldsOf(pagination) ==
  IF IsPresent(pagination.select) THEN Get(pagination.select) ELSE <<>>

\* config.strictFieldMapping ?? true
strictOf(config) ==
  IF IsPresent(config.strictFieldMapping) THEN Get(config.strictFieldMapping) ELSE TRUE

\* Faulty variant: an empty select shape is returned as undefined.
selectClause_EmptyIsAbsent(selectShape) ==
  IF DOMAIN selectShape = {} THEN Absent ELSE Some(selectShape)

\* The select part of the returned bundle.
selectClause(selectShape) == Some(selectShape)

\* Faulty variant: an empty list of orderings is returned as it is.
orderByClause_KeepsEmpty(orderBy) == orderBy

\* orderBy && orderBy.length > 0 ? orderBy : undefined
orderByClause(orderBy) ==
  IF IsPresent(orderBy) /\ Len(Get(orderBy)) > 0 THEN orderBy ELSE Absent

\* Faulty variant: the sort keys are resolved before the filter tree is compiled.
buildDrizzleClausesFromPagination_SortFirst(parsed, config) ==
  LET strictFieldMapping == strictOf(config)
      pagination == parsed.pagination
      select == buildSelectShapeInternal(selectedFieldsOf(pagination), config.fields,
                                         strictFieldMapping, config.selectAlias)
      where == IF IsPresent(pagination.filters)
               THEN whereNodeToDrizzleExpr(Get(pagination.filters), config.fields,
                                           config.operators, strictFieldMapping)
               ELSE [expr |-> Absent, err |-> NoError, calls |-> <<>>]
      sorted == IF IsPresent(pagination.sortBy)
                THEN sortByToOrderExprs(Get(pagination.sortBy), config.fields,
                                        config.operators, strictFieldMapping)
                ELSE [results |-> <<>>, err |-> NoError, calls |-> <<>>]
      orderBy == IF IsPresent(pagination.sortBy)
                 THEN Some(filterPresent(sorted.results)) ELSE Absent
  IN IF select.err # NoError
     THEN [clauses |-> Absent, err |-> select.err, calls |-> <<>>]
     ELSE IF sorted.err # NoError
     THEN [clauses |-> Absent, err |-> sorted.err, calls |-> sorted.calls]
     ELSE IF where.err # NoError
     THEN [clauses |-> Absent, err |-> where.err, calls |-> sorted.calls \o where.calls]
     ELSE [clauses |-> Some([ select |-> selectClause(select.selectShape),
                              where |-> where.expr,
                              orderBy |-> orderByClause(orderBy),
                              limit |-> limitOf(pagination),
                              offset |-> offsetOf(pagination) ]),
           err |-> NoError,
           calls |-> where.calls \o sorted.calls]

\* Returns [clauses, err, calls]: the bundle (absent when the call threw),
\* the error thrown (NoError when it returned) and the operator-set
\* primitives invoked up to there.
buildDrizzleClausesFromPagination(parsed, config) ==
  LET strictFieldMapping == strictOf(config)
      pagination == parsed.pagination
      select == buildSelectShapeInternal(selectedFieldsOf(pagination), config.fields,
                                         strictFieldMapping, config.selectAlias)
      where == IF IsPresent(pagination.filters)
               THEN whereNodeToDrizzleExpr(Get(pagination.filters), config.fields,
                                           config.operators, strictFieldMapping)
               ELSE [expr |-> Absent, err |-> NoError, calls |-> <<>>]
      sorted == IF IsPresent(pagination.sortBy)
                THEN sortByToOrderExprs(Get(pagination.sortBy), config.fields,
                                        config.operators, strictFieldMapping)
                ELSE [results |-> <<>>, err |-> NoError, calls |-> <<>>]
      orderBy == IF IsPresent(pagination.sortBy)
                 THEN Some(filterPresent(sorted.results)) ELSE Absent
  IN IF select.err # NoError
     THEN [clauses |-> Absent, err |-> select.err, calls |-> <<>>]
     ELSE IF where.err # NoError
     THEN [clauses |-> Absent, err |-> where.err, calls |-> where.calls]
     ELSE IF sorted.err # NoError
     THEN [clauses |-> Absent, err |-> sorted.err, calls |-> where.calls \o sorted.calls]
     ELSE [clauses |-> Some([ select |-> selectClause(select.selectShape),
                              where |-> where.expr,
                              orderBy |-> orderByClause(orderBy),
                              limit |-> limitOf(pagination),
                              offset |-> offsetOf(pagination) ]),
           err |-> NoError,
           calls |-> where.calls \o sorted.calls]

\* ------------------------------------------------------------------ inputs

\* Field paths of the requests, and the caller's field mappings.
PathAB == <<"a", ".", "b">>
PathA_B == <<"a", "_", "b">>
PathA_B_1 == <<"a", "_", "b", "_", "1">>
PathA == <<"a">>
PathB == <<"b">>
PathM == <<"m">>
PathN == <<"n">>

\* Every path but PathM and PathN has a column of its own.
FieldsFull ==
  [p \in {PathAB, PathA_B, PathA_B_1, PathA, PathB} |->
     CASE p = PathAB -> "users.name"
       [] p = PathA_B -> "users.age"
       [] p = PathA_B_1 -> "users.tags"
       [] p = PathA -> "users.id"
       [] OTHER -> "users.email"]

\* The same without PathA_B.
FieldsPartial == [p \in (DOMAIN FieldsFull) \ {PathA_B} |-> FieldsFull[p]]

StrictChoices == {Absent, Some(TRUE), Some(FALSE)}

Filter(field, op, value, not) ==
  [type |-> "filter", field |-> field,
   condition |-> [op |-> op, value |-> value, not |-> not]]

Group(type, items) == [type |-> type, items |-> items]

\* The leaves of the exhaustive filter trees: on mapped fields an $eq, a
\* $contains and a negated $btw, on unmapped fields an $eq and a $contains.
LeafEqA == Filter(PathA, "$eq", <<<<"x">>>>, Absent)
LeafContainsA == Filter(PathA, "$contains", <<<<"x">>>>, Some(FALSE))
LeafBtwB == Filter(PathB, "$btw", <<<<"2">>, <<"1">>>>, Some(TRUE))
LeafEqM == Filter(PathM, "$eq", <<<<"x">>>>, Absent)
LeafContainsN == Filter(PathN, "$contains", <<<<"x">>>>, Absent)
TreeLeaves == {LeafEqA, LeafContainsA, LeafBtwB, LeafEqM, LeafContainsN}

RECURSIVE TreesOfSize(_)
RECURSIVE ForestsOfSize(_)
\* The WhereNode trees with exactly n nodes (groups may be empty), and the
\* sequences of trees with n nodes in all.
TreesOfSize(n) ==
  IF n = 1 THEN TreeLeaves \cup {Group(t, <<>>) : t \in {"and", "or"}}
  ELSE {Group(t, f) : t \in {"and", "or"}, f \in ForestsOfSize(n - 1)}

ForestsOfSize(n) ==
  IF n = 0 THEN {<<>>}
  ELSE UNION {{<<t>> \o f : t \in TreesOfSize(k), f \in ForestsOfSize(n - k)} : k \in 1..n}

Trees == UNION {TreesOfSize(n) : n \in 1..MaxNodes}

RECURSIVE SeqsUpTo(_, _)
\* The sequences over S of length at most n.
SeqsUpTo(S, n) ==
  IF n = 0 THEN {<<>>}
  ELSE SeqsUpTo(S, n - 1) \cup {Append(q, x) : q \in SeqsUpTo(S, n - 1), x \in S}

Pagination(type, page, limit, select, sortBy, filters) ==
  [pagination |-> [type |-> type, page |-> page, limit |-> limit, select |-> select,
                   sortBy |-> sortBy, filters |-> filters]]

Config(dialect, fields, strictFieldMapping, selectAlias, operators) ==
  [dialect |-> dialect, fields |-> fields, strictFieldMapping |-> strictFieldMapping,
   selectAlias |-> selectAlias, operators |-> operators]

SortItems ==
  {[property |-> p, direction |-> d] : p \in {PathA, PathB, PathM}, d \in {"ASC", "DESC"}}

\* The characters of a pattern value: a plain one and the three that
\* escapeLike treats.
LikeChars == {"a", "%", "_", "\\"}
LikeValues == SeqsUpTo(LikeChars, MaxValueLen)

\* Scalar payloads, and the sequences $in and $contains take.
Scalars == {<<"1">>, <<"2">>}
ScalarLists == {<<>>, <<<<"1">>>>, <<<<"2">>, <<"1">>>>}

\* Condition: every op with the payloads of its arity (a scalar is the
\* one-element list of it), before the not flag is chosen.
Conditions ==
  {[op |-> "$null", value |-> <<>>]}
  \cup {[op |-> o, value |-> <<v>>] : o \in {"$eq", "$gt", "$gte", "$lt", "$lte"}, v \in Scalars}
  \cup {[op |-> o, value |-> l] : o \in {"$in", "$contains"}, l \in ScalarLists}
  \cup {[op |-> "$btw", value |-> <<a, b>>] : a \in Scalars, b \in Scalars}
  \cup {[op |-> o, value |-> <<v>>] : o \in {"$ilike", "$sw"}, v \in LikeValues}

NotChoices == {Absent, Some(TRUE), Some(FALSE)}

\* config.operators: omitted, one of the two exported sets passed explicitly,
\* or the caller's own set.
OperatorChoices ==
  {Absent, Some(createPgDrizzleOperators), Some(createMySqlDrizzleOperators),
   Some(customOperators)}

\* The limit of the documented request {page: 2, limit: 10}.
ScenarioLimit == 10

\* ------------------------------------------------------------------- state

VARIABLES
  parsed,        \* the validated request of the call
  config,        \* the call's configuration
  pc,            \* where applyDrizzlePaginationOnQuery stands
  clauses,       \* the clause bundle, once built
  error,         \* the error the call threw, NoError while it has thrown none
  opCalls,       \* the operator-set primitives invoked, in order
  builderCalls,  \* buildQuery, $dynamic and the mutations invoked, in order
  query,         \* the local `query`: the object the next mutation is called on
  returned       \* the {query, clauses} the call returned

vars == <<parsed, config, pc, clauses, error, opCalls, builderCalls, query, returned,
          history>>

\* One call on the query builder: the method, the object it was invoked on
\* (0 for the buildQuery callback) and its arguments. Every call returns a
\* new object, named by the call's position in the log.
BuilderCall(method, on, args) == [method |-> method, on |-> on, args |-> args]

\* The state of a call that has just been made on request p with config c.
Called(p, c) ==
  /\ parsed = p
  /\ config = c
  /\ pc = "start"
  /\ clauses = Absent
  /\ error = NoError
  /\ opCalls = <<>>
  /\ builderCalls = <<>>
  /\ query = 0
  /\ returned = Absent

\* Calls that vary the filter tree.
InitTree ==
  \E t \in Trees, d \in {"pg", "mysql"}, st \in StrictChoices :
    Called(Pagination("LIMIT_OFFSET", Some(1), Some(MaxLimit), Absent, Absent, Some(t)),
           Config(d, FieldsFull, st, Absent, Absent))

\* Calls that vary the select list, the alias function and the mapping.
InitSelect ==
  \E sel \in {Absent} \cup
             {Some(q) : q \in SeqsUpTo({PathAB, PathA_B, PathA_B_1, PathM}, MaxSelectLen)},
     f \in {FieldsFull, FieldsPartial}, st \in StrictChoices,
     al \in {Absent, Some("prefixCol")} :
    Called(Pagination("LIMIT_OFFSET", Some(1), Some(MaxLimit), sel, Absent, Absent),
           Config("pg", f, st, al, Absent))

\* Calls that vary the pagination type, the page and the limit.
InitPage ==
  \E ty \in {"LIMIT_OFFSET", "CURSOR"},
     pg \in {Absent} \cup {Some(n) : n \in (0 - MaxPage)..MaxPage},
     lim \in {Absent} \cup {Some(n) : n \in (1..MaxLimit) \cup {ScenarioLimit}} :
    Called(Pagination(ty, pg, lim, Absent, Absent, Absent),
           Config("pg", FieldsFull, Absent, Absent, Absent))

\* Calls that vary the sort keys.
InitSort ==
  \E sel \in {Absent, Some(<<PathM>>)},
     srt \in {Absent} \cup {Some(q) : q \in SeqsUpTo(SortItems, MaxSortLen)},
     d \in {"pg", "mysql"}, st \in StrictChoices, pg \in {1, 2} :
    Called(Pagination("LIMIT_OFFSET", Some(pg), Some(MaxLimit), sel, srt, Absent),
           Config(d, FieldsFull, st, Absent, Absent))

\* Calls that combine a select list, a small filter tree and sort keys.
InitMixed ==
  \E sel \in {Absent, Some(<<PathA>>), Some(<<PathM>>)},
     flt \in {Absent} \cup {Some(t) : t \in TreesOfSize(1) \cup TreesOfSize(2)},
     srt \in {Absent, Some(<<[property |-> PathA, direction |-> "DESC"]>>),
              Some(<<[property |-> PathN, direction |-> "ASC"]>>)},
     d \in {"pg", "mysql"}, ops \in OperatorChoices, st \in StrictChoices :
    Called(Pagination("LIMIT_OFFSET", Some(2), Some(MaxLimit), sel, srt, flt),
           Config(d, FieldsFull, st, Absent, ops))

\* Calls whose filter is one leaf, over every condition, negation flag,
\* dialect and operator-set override.
InitCondition ==
  \E cond \in Conditions, nt \in NotChoices, f \in {PathA, PathM},
     d \in {"pg", "mysql"}, ops \in OperatorChoices, st \in StrictChoices :
    Called(Pagination("LIMIT_OFFSET", Some(1), Some(MaxLimit), Absent, Absent,
                      Some(Filter(f, cond.op, cond.value, nt))),
           Config(d, FieldsFull, st, Absent, ops))

\* Calls whose filter is the And group of a $gte leaf and a $lte leaf.
InitBounds ==
  \E a \in Scalars, b \in Scalars, f \in {PathA, PathB},
     d \in {"pg", "mysql"}, ops \in OperatorChoices, st \in StrictChoices :
    Called(Pagination("LIMIT_OFFSET", Some(1), Some(MaxLimit), Absent, Absent,
                      Some(Group("and", <<Filter(f, "$gte", <<a>>, Absent),
                                           Filter(f, "$lte", <<b>>, Absent)>>))),
           Config(d, FieldsFull, st, Absent, ops))

Init ==
  /\ history = <<>>
  /\ InitTree \/ InitSelect \/ InitPage \/ InitSort \/ InitMixed \/ InitCondition \/ InitBounds

\* Faulty variant: the dialect's built-in set is used whatever config.operators is.
operatorsOf_DialectOnly(cfg) == getOperatorsForDialect(cfg.dialect)

\* config.operators ?? getOperatorsForDialect(config.dialect)
operatorsOf(cfg) ==
  IF IsPresent(cfg.operators) THEN Get(cfg.operators)
  ELSE getOperatorsForDialect(cfg.dialect)

\* Faulty variant: a failed compilation is caught and the call goes on with an
\* empty bundle.
BuildClauses_CatchesAndContinues ==
  /\ pc = "start"
  /\ LET r == buildDrizzleClausesFromPagination(parsed,
                [fields |-> config.fields, operators |-> operatorsOf(config),
                 selectAlias |-> config.selectAlias,
                 strictFieldMapping |-> config.strictFieldMapping])
     IN /\ opCalls' = r.calls
        /\ error' = r.err
        /\ clauses' = IF r.err # NoError
                      THEN Some([select |-> Some(<<>>), where |-> Absent, orderBy |-> Absent,
                                 limit |-> Absent, offset |-> Absent])
                      ELSE r.clauses
        /\ pc' = "buildQuery"
  /\ UNCHANGED <<parsed, config, builderCalls, query, returned, history>>

\* Lines 423-430: choose the operator set and build the clauses; a throw
\* ends the call there.
BuildClauses ==
  /\ pc = "start"
  /\ LET r == buildDrizzleClausesFromPagination(parsed,
                [fields |-> config.fields, operators |-> operatorsOf(config),
                 selectAlias |-> config.selectAlias,
                 strictFieldMapping |-> config.strictFieldMapping])
     IN /\ opCalls' = r.calls
        /\ error' = r.err
        /\ clauses' = r.clauses
        /\ pc' = IF r.err # NoError THEN "thrown" ELSE "buildQuery"
  /\ UNCHANGED <<parsed, config, builderCalls, query, returned, history>>

\* Faulty variant: the query of buildQuery is used as it is, without $dynamic().
BuildQuery_NoDynamic ==
  /\ pc = "buildQuery"
  /\ builderCalls' = <<BuilderCall("buildQuery", 0, <<Get(clauses).select>>)>>
  /\ query' = 1
  /\ pc' = "where"
  /\ UNCHANGED <<parsed, config, clauses, error, opCalls, returned, history>>

\* Line 432: config.buildQuery(clauses.select).$dynamic()
BuildQuery ==
  /\ pc = "buildQuery"
  /\ builderCalls' = <<BuilderCall("buildQuery", 0, <<Get(clauses).select>>),
                       BuilderCall("$dynamic", 1, <<>>)>>
  /\ query' = 2
  /\ pc' = "where"
  /\ UNCHANGED <<parsed, config, clauses, error, opCalls, returned, history>>

\* Faulty variant: the object a mutation returns is dropped, and the next
\* mutation is made on the old one.
Mutate_DropsResult(method, args) ==
  /\ builderCalls' = Append(builderCalls, BuilderCall(method, query, args))
  /\ query' = query

\* A mutation of the local query: query = query.method(...args).
Mutate(method, args) ==
  /\ builderCalls' = Append(builderCalls, BuilderCall(method, query, args))
  /\ query' = Len(builderCalls) + 1

\* Faulty variant: the offset is applied before the limit.
stepAfter_OffsetBeforeLimit(step) ==
  CASE step = "where" -> "orderBy"
    [] step = "orderBy" -> "offset"
    [] step = "offset" -> "limit"
    [] OTHER -> "return"

\* The statement order of lines 434-450: where, orderBy, limit, offset, return.
stepAfter(step) ==
  CASE step = "where" -> "orderBy"
    [] step = "orderBy" -> "limit"
    [] step = "limit" -> "offset"
    [] OTHER -> "return"

\* Lines 434-436
ApplyWhere ==
  /\ pc = "where"
  /\ IF IsPresent(Get(clauses).where)
     THEN Mutate("where", <<Get(Get(clauses).where)>>)
     ELSE UNCHANGED <<builderCalls, query>>
  /\ pc' = stepAfter("where")
  /\ UNCHANGED <<parsed, config, clauses, error, opCalls, returned, history>>

\* Lines 438-440
ApplyOrderBy ==
  /\ pc = "orderBy"
  /\ IF IsPresent(Get(clauses).orderBy) /\ Len(Get(Get(clauses).orderBy)) > 0
     THEN Mutate("orderBy", Get(Get(clauses).orderBy))
     ELSE UNCHANGED <<builderCalls, query>>
  /\ pc' = stepAfter("orderBy")
  /\ UNCHANGED <<parsed, config, clauses, error, opCalls, returned, history>>

\* Lines 442-444
ApplyLimit ==
  /\ pc = "limit"
  /\ IF IsPresent(Get(clauses).limit)
     THEN Mutate("limit", <<Get(Get(clauses).limit)>>)
     ELSE UNCHANGED <<builderCalls, query>>
  /\ pc' = stepAfter("limit")
  /\ UNCHANGED <<parsed, config, clauses, error, opCalls, returned, history>>

\* Faulty variant: the offset is tested for truthiness, so an offset of 0 is
\* not applied.
ApplyOffset_SkipsZero ==
  /\ pc = "offset"
  /\ IF IsPresent(Get(clauses).offset) /\ Get(Get(clauses).offset) # 0
     THEN Mutate("offset", <<Get(Get(clauses).offset)>>)
     ELSE UNCHANGED <<builderCalls, query>>
  /\ pc' = stepAfter("offset")
  /\ UNCHANGED <<parsed, config, clauses, error, opCalls, returned, history>>

\* Lines 446-448
ApplyOffset ==
  /\ pc = "offset"
  /\ IF IsPresent(Get(clauses).offset)
     THEN Mutate("offset", <<Get(Get(clauses).offset)>>)
     ELSE UNCHANGED <<builderCalls, query>>
  /\ pc' = stepAfter("offset")
  /\ UNCHANGED <<parsed, config, clauses, error, opCalls, returned, history>>

\* Line 450
Return ==
  /\ pc = "return"
  /\ returned' = Some([query |-> query, clauses |-> Get(clauses)])
  /\ pc' = "done"
  /\ UNCHANGED <<parsed, config, clauses, error, opCalls, builderCalls, query, history>>

Next ==
  \/ BuildClauses
  \/ BuildQuery
  \/ ApplyWhere
  \/ ApplyOrderBy
  \/ ApplyLimit
  \/ ApplyOffset
  \/ Return

Spec == Init /\ [][Next]_vars

\* ------------------------------------------------- several calls in a row

\* The requests and configurations of calls made one after the other on one
\* field mapping: select lists whose aliases collide, and an unmapped filter
\* field, which makes a strict call throw.
CallRequests ==
  {Pagination("LIMIT_OFFSET", Some(1), Some(MaxLimit), sel, Absent, flt) :
     sel \in {Absent, Some(<<PathAB>>), Some(<<PathA_B>>), Some(<<PathAB, PathA_B>>)},
     flt \in {Absent, Some(LeafEqM)}}

CallConfigs == {Config("pg", FieldsFull, st, Absent, Absent) : st \in {Absent, Some(FALSE)}}

\* The function is entered once more after the call before it has returned
\* or thrown (the function is synchronous, so calls never overlap); what
\* that call did is kept in history.
NextCall ==
  /\ pc \in {"done", "thrown"}
  /\ Len(history) < MaxCalls - 1
  /\ history' = Append(history, [parsed |-> parsed, config |-> config, clauses |-> clauses,
                                  error |-> error, opCalls |-> opCalls,
                                  builderCalls |-> builderCalls])
  /\ \E p \in CallRequests, c \in CallConfigs :
       /\ parsed' = p
       /\ config' = c
  /\ pc' = "start"
  /\ clauses' = Absent
  /\ error' = NoError
  /\ opCalls' = <<>>
  /\ builderCalls' = <<>>
  /\ query' = 0
  /\ returned' = Absent

InitCalls ==
  /\ history = <<>>
  /\ \E p \in CallRequests, c \in CallConfigs : Called(p, c)

NextCalls == Next \/ NextCall

SpecCalls == InitCalls /\ [][NextCalls]_vars

\* ================================================================ properties
\* Vocabulary of the properties: what the request asks for, read off the
\* request and the configuration alone.

Request == parsed.pagination

\* strictFieldMapping true or omitted / false.
StrictMode == config.strictFieldMapping \in {Absent, Some(TRUE)}
PermissiveMode == config.strictFieldMapping = Some(FALSE)

IsMapped(path) == path \in DOMAIN config.fields

\* The operator set of the call has no contains primitive.
LacksContains == ~IsPresent(operatorsOf(config).contains)

RECURSIVE NodesOf(_)
RECURSIVE NodesOfItems(_)
\* Every node of a tree, depth-first, left to right.
NodesOf(node) ==
  IF node.type = "filter" THEN <<node>> ELSE <<node>> \o NodesOfItems(node.items)
NodesOfItems(items) ==
  IF items = <<>> THEN <<>> ELSE NodesOf(Head(items)) \o NodesOfItems(Tail(items))

RECURSIVE LeavesOf(_)
RECURSIVE LeavesOfItems(_)
\* The filter leaves of a tree, depth-first, left to right.
LeavesOf(node) ==
  IF node.type = "filter" THEN <<node>> ELSE LeavesOfItems(node.items)
LeavesOfItems(items) ==
  IF items = <<>> THEN <<>> ELSE LeavesOf(Head(items)) \o LeavesOfItems(Tail(items))

HasFilters == IsPresent(Request.filters)
FilterNodes == IF HasFilters THEN NodesOf(Get(Request.filters)) ELSE <<>>
FilterLeaves == IF HasFilters THEN LeavesOf(Get(Request.filters)) ELSE <<>>
SelectPaths == IF IsPresent(Request.select) THEN Get(Request.select) ELSE <<>>
SortEntries == IF IsPresent(Request.sortBy) THEN Get(Request.sortBy) ELSE <<>>

AllLeavesMapped == \A i \in 1..Len(FilterLeaves) : IsMapped(FilterLeaves[i].field)
NoLeafMapped == \A i \in 1..Len(FilterLeaves) : ~IsMapped(FilterLeaves[i].field)
AllSelectMapped == \A i \in 1..Len(SelectPaths) : IsMapped(SelectPaths[i])

\* A leaf the condition compiler refuses: a $contains on a mapped field when
\* the operator set has no contains.
RefusedContains(leaf) ==
  IsMapped(leaf.field) /\ leaf.condition.op = "$contains" /\ LacksContains

\* The call has run its compilation (and, when it did not throw, maybe more).
Compiled == pc # "start"
Succeeded == pc \notin {"start", "thrown"}

Count(log, field, value) == Cardinality({i \in 1..Len(log) : log[i][field] = value})

\* No trace of a result: nothing built, nothing invoked on a builder,
\* nothing returned.
NoResult == clauses = Absent /\ returned = Absent /\ builderCalls = <<>>

\* ---------------------------------------------------------------------- C1
\* Leaf i is the first reference of the request to fail: every select path
\* is mapped, and every leaf before it is mapped and not a refused $contains.
FirstFailingLeaf(i) ==
  /\ AllSelectMapped
  /\ \A j \in 1..(i - 1) :
       IsMapped(FilterLeaves[j].field) /\ ~RefusedContains(FilterLeaves[j])

\* C1 as stated: in strict mode (strictFieldMapping true or omitted) every
\* unmapped filter leaf, wherever it stands in the tree, makes the call fail
\* with the field-mapping error naming that leaf's path, and no bundle is
\* returned.
C1_AsStated ==
  (Compiled /\ StrictMode) =>
    \A i \in 1..Len(FilterLeaves) :
      ~IsMapped(FilterLeaves[i].field) =>
        /\ pc = "thrown"
        /\ error = FieldMappingError(FilterLeaves[i].field)
        /\ NoResult

\* C1 (amended): in strict mode every unmapped filter leaf, wherever it
\* stands in the tree, makes the whole call fail with no bundle returned and
\* no builder call made; the error is the field-mapping error naming that
\* leaf's path when the leaf is the first failing reference of the request,
\* and otherwise the error of an earlier reference (an unmapped select path,
\* an earlier unmapped leaf, an earlier refused $contains).
C1_StrictUnmappedLeafFails ==
  (Compiled /\ StrictMode) =>
    \A i \in 1..Len(FilterLeaves) :
      ~IsMapped(FilterLeaves[i].field) =>
        /\ pc = "thrown"
        /\ error.kind \in {"FieldMappingError", "UnsupportedOperatorError"}
        /\ NoResult
        /\ FirstFailingLeaf(i) => error = FieldMappingError(FilterLeaves[i].field)

\* A strict call has thrown on an unmapped leaf nested two groups deep, after
\* compiling the mapped leaf before it.
C1_Witness ==
  /\ pc = "thrown"
  /\ config.strictFieldMapping = Absent
  /\ Request.filters = Some(Group("and", <<LeafEqA, Group("or", <<LeafEqM>>)>>))
  /\ error = FieldMappingError(PathM)
  /\ opCalls = <<OpCall("eq", 2)>>

\* ---------------------------------------------------------------------- C2
\* C2: in permissive mode a filter tree none of whose leaves is mapped
\* (nested and empty groups included) compiles to an absent where, invokes no
\* predicate primitive, and the applicator never calls where.
C2_PermissiveAllPruned ==
  (PermissiveMode /\ HasFilters /\ NoLeafMapped) =>
    /\ Compiled =>
         /\ error = NoError
         /\ IsPresent(clauses)
         /\ Get(clauses).where = Absent
         /\ \A i \in 1..Len(opCalls) : opCalls[i].prim \notin PredicatePrims
    /\ Count(builderCalls, "method", "where") = 0

\* A permissive call has returned for a nested tree of unmapped leaves and an
\* empty group, having applied limit and offset but no where.
C2_Witness ==
  /\ pc = "done"
  /\ PermissiveMode
  /\ Request.filters =
       Some(Group("and", <<Group("or", <<LeafEqM>>), Group("and", <<>>)>>))
  /\ Get(clauses).where = Absent
  /\ Count(builderCalls, "method", "limit") = 1

\* ---------------------------------------------------------------------- C3
RECURSIVE ExpectedNode(_)
RECURSIVE ExpectedKids(_)
\* What the rule gives for a node of a tree that compiles: its expression
\* and the number of and / or calls made for the groups at and below it. A
\* mapped leaf is the condition compiler's expression and an unmapped one is
\* absent; a group with the absent children discarded is absent for no
\* survivor, the survivor itself (no call) for one, and one call of its own
\* connective on the survivors in their order for two or more.
ExpectedNode(node) ==
  IF node.type = "filter"
  THEN [expr |-> IF IsMapped(node.field)
                 THEN conditionToDrizzleExpr(node.condition, config.fields[node.field],
                                             operatorsOf(config)).expr
                 ELSE Absent,
        ands |-> 0, ors |-> 0]
  ELSE LET kids == ExpectedKids(node.items)
           n == Len(kids.survivors)
           connective == IF node.type = "and" THEN operatorsOf(config).and
                         ELSE operatorsOf(config).or
       IN [expr |-> IF n = 0 THEN Absent
                    ELSE IF n = 1 THEN Some(kids.survivors[1])
                    ELSE Some(Expr(connective, NoCol, <<>>, kids.survivors)),
           ands |-> kids.ands + (IF n >= 2 /\ node.type = "and" THEN 1 ELSE 0),
           ors |-> kids.ors + (IF n >= 2 /\ node.type = "or" THEN 1 ELSE 0)]

ExpectedKids(items) ==
  IF items = <<>> THEN [survivors |-> <<>>, ands |-> 0, ors |-> 0]
  ELSE LET first == ExpectedNode(Head(items))
           rest == ExpectedKids(Tail(items))
       IN [survivors |-> (IF IsPresent(first.expr) THEN <<Get(first.expr)>> ELSE <<>>)
                         \o rest.survivors,
           ands |-> first.ands + rest.ands,
           ors |-> first.ors + rest.ors]

MappedBtwLeaves ==
  {i \in 1..Len(FilterLeaves) :
     IsMapped(FilterLeaves[i].field) /\ FilterLeaves[i].condition.op = "$btw"}

\* C3: for every And/Or group at any depth of a tree that compiles, one
\* surviving child yields that child's expression with no and/or call for
\* the group, and two or more yield exactly one call of the group's own
\* connective on the survivors in their original order: the call's where is
\* what this rule gives from the root down, and the and (or) calls of the
\* whole call are one per And (Or) group keeping two or more children, plus
\* the one and of each $btw leaf.
C3_GroupFlattening ==
  (Succeeded /\ HasFilters) =>
    LET expected == ExpectedNode(Get(Request.filters))
    IN /\ Get(clauses).where = expected.expr
       /\ Count(opCalls, "prim", "and") = expected.ands + Cardinality(MappedBtwLeaves)
       /\ Count(opCalls, "prim", "or") = expected.ors

\* A permissive call has returned for Or[And[unmapped, mapped]]: both groups
\* keep one child, the where is the mapped leaf's expression and no
\* connective was called.
C3_Witness ==
  /\ pc = "done"
  /\ PermissiveMode
  /\ Request.filters = Some(Group("or", <<Group("and", <<LeafEqM, LeafEqA>>)>>))
  /\ Get(clauses).where = Some(Expr("drizzleEq", "users.id", <<<<"x">>>>, <<>>))
  /\ opCalls = <<OpCall("eq", 2)>>

\* ---------------------------------------------------------------------- C4
\* The call's outcome is decided by the filter tree alone.
OnlyFilters == HasFilters /\ ~IsPresent(Request.select) /\ ~IsPresent(Request.sortBy)

\* C4 as stated: a tree all of whose leaves are mapped never throws and
\* compiles to a present expression, in strict and in permissive mode.
C4_AsStated ==
  (Compiled /\ OnlyFilters /\ AllLeavesMapped) =>
    error = NoError /\ IsPresent(clauses) /\ IsPresent(Get(clauses).where)

\* C4 (amended): a tree that has at least one leaf, all of whose leaves are
\* mapped and none of whose leaves is a $contains compiled against an
\* operator set without contains, never throws and compiles to a present
\* expression, in strict and in permissive mode.
C4_MappedTreeCompiles ==
  (Compiled /\ OnlyFilters /\ AllLeavesMapped /\ Len(FilterLeaves) >= 1
     /\ \A i \in 1..Len(FilterLeaves) : ~RefusedContains(FilterLeaves[i])) =>
    error = NoError /\ IsPresent(clauses) /\ IsPresent(Get(clauses).where)

\* A strict call has returned for a nested tree of mapped leaves, one of
\* them a $contains the PostgreSQL set supports.
C4_Witness ==
  /\ pc = "done"
  /\ config.strictFieldMapping = Some(TRUE)
  /\ config.dialect = "pg"
  /\ Request.filters = Some(Group("or", <<LeafContainsA, Group("and", <<LeafBtwB>>)>>))
  /\ IsPresent(Get(clauses).where)
  /\ Count(builderCalls, "method", "where") = 1

\* ---------------------------------------------------------------------- C5
MappedSelectIdx == {i \in 1..Len(SelectPaths) : IsMapped(SelectPaths[i])}
UnmappedSelectIdx == {i \in 1..Len(SelectPaths) : ~IsMapped(SelectPaths[i])}
FirstUnmappedSelect ==
  CHOOSE i \in UnmappedSelectIdx : \A j \in UnmappedSelectIdx : i <= j

\* The call's outcome is decided by the select list alone.
OnlySelect == ~HasFilters /\ ~IsPresent(Request.sortBy)

\* Every column of the select mapping is the column of a mapped requested path.
SelectOnlyMappedColumns ==
  LET shape == Get(Get(clauses).select)
  IN \A k \in DOMAIN shape :
       \E i \in MappedSelectIdx : shape[k] = config.fields[SelectPaths[i]]

\* C5 as stated: the select-shape builder is permissive whatever the mode: in
\* strict mode too an unmapped select path does not make the call fail and is
\* merely left out of the select mapping.
C5_AsStated ==
  (Compiled /\ StrictMode /\ OnlySelect /\ UnmappedSelectIdx # {}) =>
    error = NoError /\ IsPresent(clauses) /\ SelectOnlyMappedColumns

\* C5 (amended): the select-shape builder follows the call's mode: in
\* permissive mode an unmapped select path is skipped silently and merely
\* left out of the select mapping; in strict mode (strictFieldMapping true or
\* omitted) the first unmapped select path makes the call fail, before any
\* operator primitive is invoked, with the field-mapping error naming it.
C5_SelectFollowsMode ==
  (Compiled /\ UnmappedSelectIdx # {}) =>
    /\ StrictMode =>
         /\ pc = "thrown"
         /\ error = FieldMappingError(SelectPaths[FirstUnmappedSelect])
         /\ NoResult
         /\ opCalls = <<>>
    /\ PermissiveMode =>
         /\ error.kind # "FieldMappingError"
         /\ OnlySelect => error = NoError
         /\ error = NoError => IsPresent(clauses) /\ SelectOnlyMappedColumns

\* A call with strictFieldMapping omitted has thrown on the unmapped second
\* path of its select list.
C5_Witness ==
  /\ pc = "thrown"
  /\ config.strictFieldMapping = Absent
  /\ Request.select = Some(<<PathAB, PathM, PathA_B>>)
  /\ error = FieldMappingError(PathM)

\* ---------------------------------------------------------------------- C6
MappedSortIdx == {i \in 1..Len(SortEntries) : IsMapped(SortEntries[i].property)}
UnmappedSortIdx == {i \in 1..Len(SortEntries) : ~IsMapped(SortEntries[i].property)}
FirstUnmappedSort ==
  CHOOSE i \in UnmappedSortIdx : \A j \in UnmappedSortIdx : i <= j

\* No select path and no filter leaf fails before the sort keys are resolved.
NothingFailsBeforeSort ==
  /\ AllSelectMapped
  /\ AllLeavesMapped
  /\ \A i \in 1..Len(FilterLeaves) : ~RefusedContains(FilterLeaves[i])

\* The bundle's orderBy holds one expression per mapped sort entry, and is
\* absent when there is none.
OrderByKeepsMappedEntries ==
  LET orderBy == Get(clauses).orderBy
  IN IF MappedSortIdx = {} THEN orderBy = Absent
     ELSE IsPresent(orderBy) /\ Len(Get(orderBy)) = Cardinality(MappedSortIdx)

\* C6 as stated: sort keys are permissive whatever the mode: in strict mode
\* too an unmapped sortBy entry is dropped and never makes the call fail.
C6_AsStated ==
  (Compiled /\ StrictMode /\ NothingFailsBeforeSort /\ UnmappedSortIdx # {}) =>
    error = NoError /\ IsPresent(clauses) /\ OrderByKeepsMappedEntries

\* C6 (amended): sort keys follow the call's mode: in permissive mode an
\* unmapped sortBy entry is dropped and never makes the call fail; in strict
\* mode (strictFieldMapping true or omitted) it makes the call fail, with the
\* field-mapping error naming the first unmapped sort field when no select
\* path and no filter leaf failed before it.
C6_SortFollowsMode ==
  (Compiled /\ UnmappedSortIdx # {}) =>
    /\ StrictMode =>
         /\ pc = "thrown"
         /\ error.kind \in {"FieldMappingError", "UnsupportedOperatorError"}
         /\ NoResult
         /\ NothingFailsBeforeSort =>
              error = FieldMappingError(SortEntries[FirstUnmappedSort].property)
    /\ PermissiveMode =>
         /\ error.kind # "FieldMappingError"
         /\ error = NoError => IsPresent(clauses) /\ OrderByKeepsMappedEntries

\* A strict call has thrown on the unmapped second entry of its sortBy, after
\* building the ordering of the first.
C6_Witness ==
  /\ pc = "thrown"
  /\ config.strictFieldMapping = Some(TRUE)
  /\ Request.sortBy = Some(<<[property |-> PathB, direction |-> "DESC"],
                             [property |-> PathM, direction |-> "ASC"]>>)
  /\ error = FieldMappingError(PathM)
  /\ opCalls = <<OpCall("desc", 1)>>

\* ---------------------------------------------------------------------- C7
\* C7: every key of the select mapping belongs to one requested path: the
\* mapping has as many entries as there are mapped requested paths, none
\* overwritten by a later one.
C7_AliasesUnique ==
  Succeeded =>
    Cardinality(DOMAIN Get(Get(clauses).select)) = Cardinality(MappedSelectIdx)

\* ---------------------------------------------------------------------- C8
BaseAliasOf(i) == aliasBuilder(config.selectAlias, SelectPaths[i])

\* The mapped paths before entry i that produce the same base alias.
EarlierSameBase(i) ==
  {j \in MappedSelectIdx : j < i /\ BaseAliasOf(j) = BaseAliasOf(i)}

ExpectedAlias(i) ==
  LET k == Cardinality(EarlierSameBase(i))
  IN IF k = 0 THEN BaseAliasOf(i)
     ELSE BaseAliasOf(i) \o <<"_">> \o NumberToString(k)

\* C8: the first path producing a base alias gets it unsuffixed, the k-th
\* later path producing the same base alias gets base + '_' + k, and each
\* alias is mapped to its own path's column.
C8_AliasRule ==
  Succeeded =>
    \A i \in MappedSelectIdx :
      /\ ExpectedAlias(i) \in DOMAIN Get(Get(clauses).select)
      /\ Get(Get(clauses).select)[ExpectedAlias(i)] = config.fields[SelectPaths[i]]

\* ---------------------------------------------------------------------- C9
\* C9: the select of a clause bundle is always a present mapping, and it is
\* the empty mapping when the request has no select, an empty select, or a
\* select whose paths are all pruned; it is what buildQuery receives.
C9_SelectAlwaysPresent ==
  IsPresent(clauses) =>
    /\ IsPresent(Get(clauses).select)
    /\ MappedSelectIdx = {} => DOMAIN Get(Get(clauses).select) = {}
    /\ builderCalls # <<>> => builderCalls[1].args = <<Get(clauses).select>>

\* A permissive call has returned for a select list whose two paths were
\* both pruned: the select is the empty mapping, present.
C9_Witness ==
  /\ pc = "done"
  /\ PermissiveMode
  /\ Request.select = Some(<<PathM, PathM>>)
  /\ IsPresent(Get(clauses).select)
  /\ DOMAIN Get(Get(clauses).select) = {}
  /\ Get(returned).clauses.select = Get(clauses).select

\* --------------------------------------------------------------------- C10
Max(a, b) == IF a >= b THEN a ELSE b

\* C10 as stated: for every integer page and every present limit,
\* offset = (max(page, 1) - 1) * limit.
C10_AsStated ==
  (IsPresent(clauses) /\ IsPresent(Request.page) /\ IsPresent(Request.limit)) =>
    Get(clauses).offset = Some((Max(Get(Request.page), 1) - 1) * Get(Request.limit))

\* C10 (amended): for a request of pagination type LIMIT_OFFSET, every
\* integer page (zero and negative included) and every present limit,
\* offset = (max(page, 1) - 1) * limit, so page 0 and page 1 both give
\* offset 0 and the offset is never negative for limit > 0.
C10_OffsetOfPage ==
  (IsPresent(clauses) /\ Request.type = "LIMIT_OFFSET"
     /\ IsPresent(Request.page) /\ IsPresent(Request.limit)) =>
    /\ Get(clauses).offset = Some((Max(Get(Request.page), 1) - 1) * Get(Request.limit))
    /\ Get(Request.page) \in {0, 1} => Get(clauses).offset = Some(0)
    /\ Get(Request.limit) > 0 => Get(Get(clauses).offset) >= 0

\* A call for the negative page -1 with limit 2 has returned: offset 0,
\* applied to the query.
C10_Witness ==
  /\ pc = "done"
  /\ Request.type = "LIMIT_OFFSET"
  /\ Request.page = Some(0 - 1)
  /\ Request.limit = Some(2)
  /\ Get(clauses).offset = Some(0)
  /\ Count(builderCalls, "method", "offset") = 1

\* --------------------------------------------------------------------- C11
\* C11: the offset of the bundle is computed only when a page number and a
\* limit are both present: when the limit is absent, or the page is absent,
\* the offset is absent and no offset call is made on the query.
C11_OffsetNeedsPageAndLimit ==
  (IsPresent(clauses) /\ (~IsPresent(Request.limit) \/ ~IsPresent(Request.page))) =>
    /\ Get(clauses).offset = Absent
    /\ Count(builderCalls, "method", "offset") = 0

\* A call with a limit and no page has returned: the limit was applied, and
\* there is no offset.
C11_Witness ==
  /\ pc = "done"
  /\ Request.type = "LIMIT_OFFSET"
  /\ Request.page = Absent
  /\ Request.limit = Some(2)
  /\ Get(clauses).offset = Absent
  /\ Count(builderCalls, "method", "limit") = 1

\* --------------------------------------------------------------------- C12
\* The request has a page, a limit and nothing else.
PlainRequest(page, limit) ==
  /\ Request.page = Some(page)
  /\ Request.limit = Some(limit)
  /\ ~IsPresent(Request.select)
  /\ ~HasFilters
  /\ ~IsPresent(Request.sortBy)

\* The bundle {select: {}, where: absent, orderBy: absent, limit, offset}.
PlainBundle(limit, offset) ==
  [select |-> Some(<<>>), where |-> Absent, orderBy |-> Absent,
   limit |-> Some(limit), offset |-> Some(offset)]

\* C12 as stated: the limit of the bundle is the request's limit unchanged,
\* and a request {page: 2, limit: 10} with no select, filters or sort yields
\* exactly {select: {}, where: absent, orderBy: absent, limit: 10, offset: 10}.
C12_AsStated ==
  IsPresent(clauses) =>
    /\ Get(clauses).limit = Request.limit
    /\ PlainRequest(2, ScenarioLimit) => Get(clauses) = PlainBundle(ScenarioLimit, 10)

\* C12 (amended): the limit of the bundle is the request's limit unchanged,
\* whatever page, select, sort and filters are, and a request of pagination
\* type LIMIT_OFFSET {page: 2, limit: 10} with no select, filters or sort
\* yields exactly {select: {}, where: absent, orderBy: absent, limit: 10,
\* offset: 10}.
C12_LimitPassesThrough ==
  IsPresent(clauses) =>
    /\ Get(clauses).limit = Request.limit
    /\ (Request.type = "LIMIT_OFFSET" /\ PlainRequest(2, ScenarioLimit)) =>
         Get(clauses) = PlainBundle(ScenarioLimit, 10)

\* The call for {page: 2, limit: 10} has returned its bundle.
C12_Witness ==
  /\ pc = "done"
  /\ Request.type = "LIMIT_OFFSET"
  /\ PlainRequest(2, ScenarioLimit)
  /\ Get(returned).clauses = PlainBundle(ScenarioLimit, 10)
  /\ Count(builderCalls, "method", "limit") = 1

\* --------------------------------------------------------------------- C13
\* The place of a mutation in the fixed order; 0 for buildQuery and $dynamic.
Rank(method) ==
  CASE method = "where" -> 1
    [] method = "orderBy" -> 2
    [] method = "limit" -> 3
    [] method = "offset" -> 4
    [] OTHER -> 0

\* C13: the applicator issues its mutations in the order where, orderBy,
\* limit, offset: in the log of a run no orderBy call precedes a where call,
\* no limit call precedes a where or orderBy call, and no offset call
\* precedes any of the other three.
C13_MutationOrder ==
  \A i \in 1..Len(builderCalls) : \A j \in 1..Len(builderCalls) :
    (i < j /\ Rank(builderCalls[i].method) > 0 /\ Rank(builderCalls[j].method) > 0) =>
      Rank(builderCalls[i].method) <= Rank(builderCalls[j].method)

\* A call has returned after applying all four clauses.
C13_Witness ==
  /\ pc = "done"
  /\ Len(builderCalls) = 6
  /\ [i \in 1..6 |-> builderCalls[i].method] =
       <<"buildQuery", "$dynamic", "where", "orderBy", "limit", "offset">>

\* --------------------------------------------------------------------- C14
\* The arguments of the calls of a method, in the order of the calls.
CallArgs(method) ==
  LET calls == SelectSeq(builderCalls, LAMBDA c : c.method = method)
  IN [i \in 1..Len(calls) |-> calls[i].args]

\* The applicator has gone through its four steps.
Applied == pc \in {"return", "done"}

\* C14: applying a bundle makes exactly one where call, with the bundle's
\* where, iff where is present; exactly one orderBy call with the N ordering
\* expressions iff orderBy has N >= 1 entries; exactly one limit call with
\* the bundle's limit iff limit is present; exactly one offset call with the
\* bundle's offset iff offset is present, an offset of 0 included; and no
\* call for a clause that is absent.
C14_OneCallPerPresentClause ==
  Applied =>
    LET bundle == Get(clauses)
    IN /\ CallArgs("where") =
            IF IsPresent(bundle.where) THEN <<<<Get(bundle.where)>>>> ELSE <<>>
       /\ CallArgs("orderBy") =
            IF IsPresent(bundle.orderBy) /\ Len(Get(bundle.orderBy)) >= 1
            THEN <<Get(bundle.orderBy)>> ELSE <<>>
       /\ CallArgs("limit") =
            IF IsPresent(bundle.limit) THEN <<<<Get(bundle.limit)>>>> ELSE <<>>
       /\ CallArgs("offset") =
            IF IsPresent(bundle.offset) THEN <<<<Get(bundle.offset)>>>> ELSE <<>>

\* A call has returned for a bundle with two orderings, an offset of 0 and
\* no where: one orderBy call with two arguments, one offset call with 0, no
\* where call.
C14_Witness ==
  /\ pc = "done"
  /\ Get(clauses).where = Absent
  /\ Get(clauses).offset = Some(0)
  /\ IsPresent(Get(clauses).orderBy) /\ Len(Get(Get(clauses).orderBy)) = 2
  /\ CallArgs("where") = <<>>
  /\ CallArgs("orderBy") = <<Get(Get(clauses).orderBy)>>
  /\ CallArgs("offset") = <<<<0>>>>

\* --------------------------------------------------------------------- C15
\* In strict mode a reference before leaf i has no mapping, so the call
\* fails there and the compiler never reaches leaf i.
StrictFailureBefore(i) ==
  /\ StrictMode
  /\ \/ ~AllSelectMapped
     \/ \E j \in 1..(i - 1) : ~IsMapped(FilterLeaves[j].field)

\* The request's filter is one leaf on a mapped field with this op.
SingleMappedLeaf(op) ==
  /\ HasFilters
  /\ Get(Request.filters).type = "filter"
  /\ Get(Request.filters).condition.op = op
  /\ IsMapped(Get(Request.filters).field)

\* The column of the single leaf, its condition, and e wrapped in not when
\* the leaf's condition is negated.
LeafColumn == config.fields[Get(Request.filters).field]
LeafCondition == Get(Request.filters).condition
Negated(e) ==
  IF LeafCondition.not = Some(TRUE)
  THEN Expr(operatorsOf(config).not, NoCol, <<>>, <<e>>) ELSE e

\* C15: a $contains leaf on a mapped field compiled against an operator set
\* without contains (the built-in MySQL set, or a supplied set without it)
\* fails the whole call, with the unsupported-operator error whenever the
\* compiler reaches the leaf, and is never skipped; against a set that has
\* contains it compiles to contains(column, value): the primitive is invoked
\* once and the where of the bundle is its expression.
C15_ContainsNeedsPrimitive ==
  Compiled =>
    /\ \A i \in 1..Len(FilterLeaves) :
         RefusedContains(FilterLeaves[i]) =>
           /\ pc = "thrown"
           /\ NoResult
           /\ ~StrictFailureBefore(i) => error = UnsupportedOperatorError
    /\ (SingleMappedLeaf("$contains") /\ ~LacksContains /\ ~StrictFailureBefore(1)) =>
         /\ error # UnsupportedOperatorError
         /\ Count(opCalls, "prim", "contains") = 1
         /\ error = NoError =>
              Get(clauses).where =
                Some(Negated(Expr(Get(operatorsOf(config).contains), LeafColumn,
                                  LeafCondition.value, <<>>)))

\* A call with dialect pg and the MySQL set supplied has thrown on a
\* $contains leaf of a mapped field.
C15_Witness ==
  /\ pc = "thrown"
  /\ config.dialect = "pg"
  /\ config.operators = Some(createMySqlDrizzleOperators)
  /\ SingleMappedLeaf("$contains")
  /\ error = UnsupportedOperatorError
  /\ opCalls = <<>>

\* --------------------------------------------------------------------- C16
\* and(gte(column, a), lte(column, b)) in the call's operator set.
BetweenExpr(column, a, b) ==
  Expr(operatorsOf(config).and, NoCol, <<>>,
       <<Expr(operatorsOf(config).gte, column, <<a>>, <<>>),
         Expr(operatorsOf(config).lte, column, <<b>>, <<>>)>>)

\* The request's filter is the leaf f $btw [a, b], not negated.
IsBtwLeaf(f, a, b) ==
  \E nt \in {Absent, Some(FALSE)} : Request.filters = Some(Filter(f, "$btw", <<a, b>>, nt))

\* The request's filter is the group And[f $gte a, f $lte b].
IsBoundsGroup(f, a, b) ==
  Request.filters = Some(Group("and", <<Filter(f, "$gte", <<a>>, Absent),
                                         Filter(f, "$lte", <<b>>, Absent)>>))

\* C16: for every column and every pair [a, b], a <= b or not, compiling
\* $btw [a, b] yields and(gte(column, a), lte(column, b)), and so does
\* compiling the And group of a $gte a leaf and a $lte b leaf on the same
\* field, with the same primitives invoked in the same order.
C16_BtwIsGteAndLte ==
  Succeeded =>
    \A f \in DOMAIN config.fields : \A a \in Scalars : \A b \in Scalars :
      (IsBtwLeaf(f, a, b) \/ IsBoundsGroup(f, a, b)) =>
        /\ Get(clauses).where = Some(BetweenExpr(config.fields[f], a, b))
        /\ opCalls = <<OpCall("gte", 2), OpCall("lte", 2), OpCall("and", 2)>>

\* A call has returned for a $btw [2, 1], whose start is above its end.
C16_Witness ==
  /\ pc = "done"
  /\ IsBtwLeaf(PathA, <<"2">>, <<"1">>)
  /\ Get(clauses).where = Some(BetweenExpr("users.id", <<"2">>, <<"1">>))
  /\ Count(builderCalls, "method", "where") = 1

\* --------------------------------------------------------------------- C17
\* The request's filter is one leaf on a mapped field that the compiler
\* reaches and does not refuse.
CompiledLeaf ==
  /\ HasFilters
  /\ Get(Request.filters).type = "filter"
  /\ IsMapped(Get(Request.filters).field)
  /\ ~RefusedContains(Get(Request.filters))
  /\ ~StrictFailureBefore(1)

\* The mapped filter leaves of the request with not true.
NegatedMappedLeaves ==
  {i \in 1..Len(FilterLeaves) :
     IsMapped(FilterLeaves[i].field) /\ FilterLeaves[i].condition.not = Some(TRUE)}

\* C17: negation is a wrapper applied last, for every operator: when
\* condition.not is true the leaf compiles to not(E), E being what the same
\* condition compiles to without not (for $btw the whole conjunction of gte
\* and lte, not each bound), with exactly one not call, made after the calls
\* of E; when not is false or absent the leaf compiles to E and not is never
\* called. Over a whole tree there is one not call per negated mapped leaf.
C17_NegationWrapsResult ==
  /\ (Compiled /\ CompiledLeaf) =>
       LET plain == conditionToDrizzleExpr([LeafCondition EXCEPT !.not = Absent],
                                           LeafColumn, operatorsOf(config))
           negated == LeafCondition.not = Some(TRUE)
       IN /\ plain.err = NoError
          /\ Count(opCalls, "prim", "not") = IF negated THEN 1 ELSE 0
          /\ SubSeq(opCalls, 1, Len(plain.calls)) = plain.calls
          /\ negated => opCalls[Len(plain.calls) + 1] = OpCall("not", 1)
          /\ error = NoError =>
               Get(clauses).where =
                 IF negated
                 THEN Some(Expr(operatorsOf(config).not, NoCol, <<>>, <<Get(plain.expr)>>))
                 ELSE plain.expr
          /\ (error = NoError /\ negated /\ LeafCondition.op = "$btw") =>
               Get(Get(clauses).where).args =
                 <<BetweenExpr(LeafColumn, LeafCondition.value[1], LeafCondition.value[2])>>
  /\ Succeeded => Count(opCalls, "prim", "not") = Cardinality(NegatedMappedLeaves)

\* A call has returned for a negated $btw leaf: not of the conjunction, one
\* not call, made last.
C17_Witness ==
  /\ pc = "done"
  /\ SingleMappedLeaf("$btw")
  /\ LeafCondition.not = Some(TRUE)
  /\ Get(clauses).where =
       Some(Expr("drizzleNot", NoCol, <<>>,
                 <<BetweenExpr(LeafColumn, LeafCondition.value[1], LeafCondition.value[2])>>))
  /\ opCalls = <<OpCall("gte", 2), OpCall("lte", 2), OpCall("and", 2), OpCall("not", 1)>>

\* --------------------------------------------------------------------- C18
LikeSpecials == {"\\", "%", "_"}

RECURSIVE InsertBackslashes(_)
\* s with one backslash put before each backslash, '%' and '_'.
InsertBackslashes(s) ==
  IF s = <<>> THEN <<>>
  ELSE (IF Head(s) \in LikeSpecials THEN <<"\\", Head(s)>> ELSE <<Head(s)>>)
       \o InsertBackslashes(Tail(s))

RECURSIVE Unescape(_)
\* s read as a LIKE pattern reads it: a backslash stands for the character
\* after it.
Unescape(s) ==
  IF s = <<>> THEN <<>>
  ELSE IF Head(s) = "\\" /\ Len(s) >= 2 THEN <<s[2]>> \o Unescape(SubSeq(s, 3, Len(s)))
  ELSE <<Head(s)>> \o Unescape(Tail(s))

RECURSIVE BareWildcards(_, _)
\* The positions, from i on, of the '%' and '_' of s that no backslash escapes.
BareWildcards(s, i) ==
  IF i > Len(s) THEN {}
  ELSE IF s[i] = "\\" THEN BareWildcards(s, i + 2)
  ELSE (IF s[i] \in {"%", "_"} THEN {i} ELSE {}) \cup BareWildcards(s, i + 1)

\* The request's filter is one $ilike or $sw leaf that compiled, and the call
\* built its bundle.
PatternLeaf ==
  /\ error = NoError /\ IsPresent(clauses)
  /\ CompiledLeaf
  /\ LeafCondition.op \in {"$ilike", "$sw"}

\* The pattern handed to the pattern-match primitive, and the part of it
\* that stands for the value: the pattern without its wrapping wildcards.
Pattern ==
  LET e == Get(Get(clauses).where)
  IN IF LeafCondition.not = Some(TRUE) THEN e.args[1].val[1] ELSE e.val[1]
EscapedPart ==
  IF LeafCondition.op = "$ilike" THEN SubSeq(Pattern, 2, Len(Pattern) - 1)
  ELSE SubSeq(Pattern, 1, Len(Pattern) - 1)

\* C18: for every value, the escaped string in the pattern is the value with
\* one backslash inserted before each backslash, '%' and '_' and every other
\* character unchanged (a backslash added for '%' or '_' is not escaped
\* again), so un-escaping it gives back the value and no '%' or '_' of the
\* value stands unescaped in it.
C18_EscapeLike ==
  PatternLeaf =>
    LET value == LeafCondition.value[1]
    IN /\ EscapedPart = InsertBackslashes(value)
       /\ Unescape(EscapedPart) = value
       /\ BareWildcards(EscapedPart, 1) = {}
       /\ Len(EscapedPart) =
            Len(value) + Cardinality({i \in 1..Len(value) : value[i] \in LikeSpecials})

\* A call has returned for the $ilike value \% : each of its two characters
\* got a backslash of its own.
C18_Witness ==
  /\ pc = "done"
  /\ PatternLeaf
  /\ LeafCondition.op = "$ilike"
  /\ LeafCondition.value = <<<<"\\", "%">>>>
  /\ EscapedPart = <<"\\", "\\", "\\", "%">>

\* --------------------------------------------------------------------- C19
\* C19: $ilike compiles to the operator set's pattern-match primitive (its
\* ilike) applied to '%' + escaped(value) + '%', and $sw to the same
\* primitive applied to escaped(value) + '%', in one call of it; the only
\* wildcards that stand unescaped in the pattern are the wrapping ones, the
\* first and last character for $ilike and the last one for $sw.
C19_PatternWrapping ==
  PatternLeaf =>
    LET escaped == escapeLike(LeafCondition.value[1])
        wrapped == IF LeafCondition.op = "$ilike" THEN <<"%">> \o escaped \o <<"%">>
                   ELSE escaped \o <<"%">>
    IN /\ Get(clauses).where =
            Some(Negated(Expr(operatorsOf(config).ilike, LeafColumn, <<wrapped>>, <<>>)))
       /\ Count(opCalls, "prim", "ilike") = 1
       /\ BareWildcards(Pattern, 1) =
            IF LeafCondition.op = "$ilike" THEN {1, Len(Pattern)} ELSE {Len(Pattern)}

\* A call on the MySQL set has returned for the $sw value a% : the pattern
\* a\%% went to like, and only its last character is a bare wildcard.
C19_Witness ==
  /\ pc = "done"
  /\ PatternLeaf
  /\ operatorsOf(config).ilike = "drizzleLike"
  /\ LeafCondition.op = "$sw"
  /\ LeafCondition.value = <<<<"a", "%">>>>
  /\ Pattern = <<"a", "\\", "%", "%">>

\* --------------------------------------------------------------------- C20
\* The sortBy entries whose field is mapped, in request order.
MappedSortEntries == SelectSeq(SortEntries, LAMBDA e : IsMapped(e.property))

\* The ordering expression of a sort entry: asc or desc of the call's
\* operator set on the entry's column.
OrderingOf(entry) ==
  Expr(IF entry.direction = "ASC" THEN operatorsOf(config).asc
       ELSE operatorsOf(config).desc,
       config.fields[entry.property], <<>>, <<>>)

\* C20: the orderBy of a bundle lists, in request order, one ordering
\* expression per sortBy entry whose field is mapped, built with asc for ASC
\* and desc for DESC; it is absent, never an empty sequence, when sortBy is
\* absent, empty or fully pruned.
C20_OrderByOfMappedEntries ==
  IsPresent(clauses) =>
    /\ Get(clauses).orderBy =
         IF Len(MappedSortEntries) = 0 THEN Absent
         ELSE Some([i \in 1..Len(MappedSortEntries) |-> OrderingOf(MappedSortEntries[i])])
    /\ Get(clauses).orderBy # Some(<<>>)
    /\ Count(opCalls, "prim", "asc") + Count(opCalls, "prim", "desc") = Len(MappedSortEntries)

\* A permissive call has returned for sortBy [m ASC, b DESC]: the unmapped
\* entry is dropped and the bundle orders by desc of b's column alone.
C20_Witness ==
  /\ pc = "done"
  /\ PermissiveMode
  /\ Request.sortBy = Some(<<[property |-> PathM, direction |-> "ASC"],
                             [property |-> PathB, direction |-> "DESC"]>>)
  /\ Get(clauses).orderBy = Some(<<Expr("drizzleDesc", "users.email", <<>>, <<>>)>>)
  /\ CallArgs("orderBy") = <<Get(Get(clauses).orderBy)>>

\* --------------------------------------------------------------------- C21
\* The functions of an operator set.
FunctionsOf(operators) ==
  {operators[k] : k \in (DOMAIN operators) \ {"contains"}}
  \cup (IF IsPresent(operators.contains) THEN {Get(operators.contains)} ELSE {})

RECURSIVE FunctionsIn(_)
\* The functions that built an expression and its sub-expressions.
FunctionsIn(e) ==
  {e.fn} \cup UNION {FunctionsIn(e.args[i]) : i \in 1..Len(e.args)}

\* The functions that built the where and the orderBy of the bundle.
FunctionsUsed ==
  LET bundle == Get(clauses)
      orderBy == IF IsPresent(bundle.orderBy) THEN Get(bundle.orderBy) ELSE <<>>
  IN (IF IsPresent(bundle.where) THEN FunctionsIn(Get(bundle.where)) ELSE {})
     \cup {orderBy[i].fn : i \in 1..Len(orderBy)}

\* The request's filter is one $contains leaf on a mapped field, and no
\* other reference of the request can fail.
OnlyMappedContains ==
  /\ SingleMappedLeaf("$contains")
  /\ ~IsPresent(Request.select)
  /\ ~IsPresent(Request.sortBy)

\* C21: when config.operators is supplied every predicate and ordering
\* primitive of the call is a function of that set, none of the dialect's
\* built-in set, so that $contains compiles with dialect mysql when the
\* supplied set has contains; when it is not supplied the functions are those
\* of the built-in set of the dialect: with pg the set that has contains,
\* with mysql the set that has none, on which $contains fails.
C21_OperatorSetChoice ==
  /\ IsPresent(clauses) =>
       FunctionsUsed \subseteq
         FunctionsOf(IF IsPresent(config.operators) THEN Get(config.operators)
                     ELSE IF config.dialect = "pg" THEN createPgDrizzleOperators
                     ELSE createMySqlDrizzleOperators)
  /\ (Compiled /\ OnlyMappedContains) =>
       IF IsPresent(config.operators)
       THEN IF IsPresent(Get(config.operators).contains)
            THEN error = NoError
                 /\ Get(Get(config.operators).contains) \in FunctionsUsed
            ELSE error = UnsupportedOperatorError
       ELSE IF config.dialect = "pg"
            THEN error = NoError /\ "drizzleArrayContains" \in FunctionsUsed
            ELSE error = UnsupportedOperatorError

\* A call with dialect mysql and the caller's own set has returned for a
\* $contains leaf and a sort key, built with the caller's functions.
C21_Witness ==
  /\ pc = "done"
  /\ config.dialect = "mysql"
  /\ config.operators = Some(customOperators)
  /\ SingleMappedLeaf("$contains")
  /\ IsPresent(Get(clauses).orderBy)
  /\ FunctionsUsed = {"customContains", "customDesc"}

\* --------------------------------------------------------------------- C22
\* C22: an error is a failure of the whole call with no partial result: once
\* compilation has failed, with the field-mapping or the unsupported-operator
\* error, the call has ended there: buildQuery is never invoked, $dynamic is
\* never entered, no where / orderBy / limit / offset call is made on any
\* query object, and no bundle is returned.
C22_NoPartialResult ==
  /\ error # NoError =>
       /\ error.kind \in {"FieldMappingError", "UnsupportedOperatorError"}
       /\ pc = "thrown"
       /\ builderCalls = <<>>
       /\ query = 0
       /\ clauses = Absent
       /\ returned = Absent
  /\ pc = "thrown" => error # NoError

\* A call has failed on its second sort key, after compiling a where and the
\* first ordering: nothing of them is returned or applied.
C22_Witness ==
  /\ pc = "thrown"
  /\ error = FieldMappingError(PathM)
  /\ Count(opCalls, "prim", "desc") = 1
  /\ NoResult

\* --------------------------------------------------------------------- C23
\* The call has built its query: it is applying the clauses or has returned.
QueryBuilt == pc \in {"where", "orderBy", "limit", "offset", "return", "done"}

\* C23: a successful call invokes buildQuery exactly once, with the select
\* shape of the clauses it returns, and $dynamic() exactly once, on the
\* result of buildQuery and before any where / orderBy / limit / offset
\* call; before that, nothing is invoked on a builder.
C23_BuildQueryOnceThenDynamic ==
  /\ ~QueryBuilt => builderCalls = <<>>
  /\ QueryBuilt =>
       /\ Len(builderCalls) >= 2
       /\ builderCalls[1] = BuilderCall("buildQuery", 0, <<Get(clauses).select>>)
       /\ builderCalls[2] = BuilderCall("$dynamic", 1, <<>>)
       /\ Count(builderCalls, "method", "buildQuery") = 1
       /\ Count(builderCalls, "method", "$dynamic") = 1
  /\ pc = "done" => builderCalls[1].args = <<Get(returned).clauses.select>>

\* A call has returned after buildQuery received the two-column select
\* shape of its clauses, $dynamic() was entered and the limit applied.
C23_Witness ==
  /\ pc = "done"
  /\ Cardinality(DOMAIN Get(Get(returned).clauses.select)) = 2
  /\ builderCalls[1].args = <<Get(returned).clauses.select>>
  /\ builderCalls[2].method = "$dynamic"
  /\ builderCalls[3].method = "limit"

\* --------------------------------------------------------------------- C25
\* C25: every invocation of the operator set's and / or made by a compilation
\* passes at least two expressions: a group's connective is called only for
\* two or more surviving children and $btw calls and with exactly two; so
\* the empty-combinator error of the built-in and / or is never raised, for
\* any tree, empty and fully pruned groups included, and a tree whose groups
\* all hold at most one child calls no connective but the and of its $btw
\* leaves.
C25_ConnectiveArity ==
  /\ \A i \in 1..Len(opCalls) :
       opCalls[i].prim \in {"and", "or"} => opCalls[i].n >= 2
  /\ error # EmptyCombinatorError
  /\ (\A i \in 1..Len(FilterNodes) :
        FilterNodes[i].type = "filter" \/ Len(FilterNodes[i].items) <= 1) =>
       \A i \in 1..Len(opCalls) :
         opCalls[i].prim # "or" /\ (opCalls[i].prim = "and" => opCalls[i].n = 2)

\* A call on the built-in set has returned for And[Or[], unmapped, $btw]: the
\* only connective call is the and of the $btw, with two expressions.
C25_Witness ==
  /\ pc = "done"
  /\ PermissiveMode
  /\ config.operators = Absent
  /\ Request.filters = Some(Group("and", <<Group("or", <<>>), LeafEqM, LeafBtwB>>))
  /\ opCalls = <<OpCall("gte", 2), OpCall("lte", 2), OpCall("and", 2), OpCall("not", 1)>>

\* --------------------------------------------------------------------- C26
\* C26: each mutation is invoked on the object the previous step returned,
\* $dynamic() first and then each applied mutation in turn, and the query
\* returned to the caller is the object returned by the last applied
\* mutation, or by $dynamic() when every clause is absent: with a builder
\* that returns a new object from each call no applied clause is lost.
C26_MutationsChain ==
  /\ \A i \in 2..Len(builderCalls) : builderCalls[i].on = i - 1
  /\ QueryBuilt => query = Len(builderCalls)
  /\ pc = "done" => Get(returned).query = Len(builderCalls)

\* A call has returned after where, limit and offset: each was invoked on
\* the object of the step before and the caller gets the object of offset.
C26_Witness ==
  /\ pc = "done"
  /\ [i \in 1..Len(builderCalls) |-> <<builderCalls[i].method, builderCalls[i].on>>] =
       <<<<"buildQuery", 0>>, <<"$dynamic", 1>>, <<"where", 2>>, <<"limit", 3>>,
         <<"offset", 4>>>>
  /\ Get(returned).query = 5

\* --------------------------------------------------------------------- C30
\* C30: for a request whose pagination type is not LIMIT_OFFSET the offset is
\* absent and no offset call is made, even with a numeric page and a limit
\* both present, while the limit is passed through to the bundle and, when
\* the call returns, has been applied to the query.
C30_OffsetOnlyForLimitOffset ==
  (IsPresent(clauses) /\ Request.type # "LIMIT_OFFSET") =>
    /\ Get(clauses).offset = Absent
    /\ Count(builderCalls, "method", "offset") = 0
    /\ Get(clauses).limit = Request.limit
    /\ (pc = "done" /\ IsPresent(Request.limit)) => CallArgs("limit") = <<<<Get(Request.limit)>>>>

\* A CURSOR call with page 2 and limit 3 has returned: limit applied, no
\* offset.
C30_Witness ==
  /\ pc = "done"
  /\ Request.type = "CURSOR"
  /\ Request.page = Some(2)
  /\ Request.limit = Some(3)
  /\ Get(clauses).offset = Absent
  /\ [i \in 1..Len(builderCalls) |-> builderCalls[i].method] =
       <<"buildQuery", "$dynamic", "limit">>

\* --------------------------------------------------------------------- C27
\* The references of the request that fail when they are evaluated: under
\* strict mode an unmapped select path, filter leaf or sort field, and in
\* either mode a $contains on a mapped field that the operator set refuses.
FailingSelect == IF StrictMode THEN UnmappedSelectIdx ELSE {}
FailingLeaves ==
  {i \in 1..Len(FilterLeaves) :
     (StrictMode /\ ~IsMapped(FilterLeaves[i].field)) \/ RefusedContains(FilterLeaves[i])}
FailingSorts == IF StrictMode THEN UnmappedSortIdx ELSE {}

Least(S) == CHOOSE i \in S : \A j \in S : i <= j

\* The calls of a sequence that are not calls of and / or.
PrimitiveCalls(calls) == Cardinality({k \in 1..Len(calls) : calls[k].prim \notin {"and", "or"}})

RECURSIVE LeafPrimitiveCalls(_)
\* The primitive calls that compiling the mapped leaves 1..n makes.
LeafPrimitiveCalls(n) ==
  IF n = 0 THEN 0
  ELSE LeafPrimitiveCalls(n - 1)
       + (IF IsMapped(FilterLeaves[n].field) /\ ~RefusedContains(FilterLeaves[n])
          THEN PrimitiveCalls(conditionToDrizzleExpr(FilterLeaves[n].condition,
                 config.fields[FilterLeaves[n].field], operatorsOf(config)).calls)
          ELSE 0)

\* C27: the error of a call is the one of the first failing reference in the
\* order select paths (request order), filter leaves (depth-first, left to
\* right), sortBy entries (request order), whatever fails after it; nothing
\* after the failing reference is evaluated: the primitives invoked are those
\* of the leaves and sort entries before it.
C27_FirstFailureWins ==
  Compiled =>
    IF FailingSelect # {}
    THEN /\ error = FieldMappingError(SelectPaths[Least(FailingSelect)])
         /\ opCalls = <<>>
    ELSE IF FailingLeaves # {}
    THEN LET i == Least(FailingLeaves)
         IN /\ error = IF IsMapped(FilterLeaves[i].field) THEN UnsupportedOperatorError
                       ELSE FieldMappingError(FilterLeaves[i].field)
            /\ PrimitiveCalls(opCalls) = LeafPrimitiveCalls(i - 1)
            /\ Count(opCalls, "prim", "asc") + Count(opCalls, "prim", "desc") = 0
    ELSE IF FailingSorts # {}
    THEN LET k == Least(FailingSorts)
         IN /\ error = FieldMappingError(SortEntries[k].property)
            /\ Count(opCalls, "prim", "asc") + Count(opCalls, "prim", "desc") = k - 1
            /\ PrimitiveCalls(opCalls) = LeafPrimitiveCalls(Len(FilterLeaves)) + k - 1
    ELSE error = NoError

\* A strict call on the MySQL set, for And[mapped $eq, unmapped $eq, mapped
\* $contains], has thrown the field-mapping error of the second leaf after
\* the eq of the first; the $contains after it was not reached.
C27_Witness ==
  /\ pc = "thrown"
  /\ StrictMode
  /\ LacksContains
  /\ Request.filters = Some(Group("and", <<LeafEqA, LeafEqM, LeafContainsA>>))
  /\ error = FieldMappingError(PathM)
  /\ opCalls = <<OpCall("eq", 2)>>

\* --------------------------------------------------------------------- C28
\* The $contains leaves of the request whose field is unmapped.
UnmappedContainsLeaves ==
  {i \in 1..Len(FilterLeaves) :
     ~IsMapped(FilterLeaves[i].field) /\ FilterLeaves[i].condition.op = "$contains"}

MappedContainsLeaves ==
  {i \in 1..Len(FilterLeaves) :
     IsMapped(FilterLeaves[i].field) /\ FilterLeaves[i].condition.op = "$contains"}

\* C28: the field of a leaf is resolved before its operator is dispatched: a
\* $contains leaf on an unmapped field is pruned without error in permissive
\* mode, even on an operator set without contains (the call fails only for a
\* refused $contains on a mapped field, and contains is invoked for the
\* mapped leaves alone), and in strict mode it fails with the field-mapping
\* error, not the unsupported-operator error: the error of the call is the
\* field-mapping one unless a $contains on a mapped field was refused before
\* the leaf, and it names the leaf's path when the leaf is the first
\* reference to fail.
C28_ResolutionBeforeDispatch ==
  (Compiled /\ UnmappedContainsLeaves # {}) =>
    /\ PermissiveMode =>
         /\ error = IF \E j \in MappedContainsLeaves : LacksContains
                    THEN UnsupportedOperatorError ELSE NoError
         /\ error = NoError =>
              Count(opCalls, "prim", "contains") = Cardinality(MappedContainsLeaves)
    /\ StrictMode =>
         \A i \in UnmappedContainsLeaves :
           /\ pc = "thrown"
           /\ (\A j \in 1..(i - 1) : ~RefusedContains(FilterLeaves[j])) =>
                error.kind = "FieldMappingError"
           /\ (FailingSelect = {} /\ i = Least(FailingLeaves)) =>
                error = FieldMappingError(FilterLeaves[i].field)

\* A permissive call on the MySQL set has returned for And[unmapped
\* $contains, mapped $eq]: the $contains was pruned and the where is the eq.
C28_Witness ==
  /\ pc = "done"
  /\ PermissiveMode
  /\ LacksContains
  /\ Request.filters = Some(Group("and", <<LeafContainsN, LeafEqA>>))
  /\ Get(clauses).where = Some(Expr("drizzleEq", "users.id", <<<<"x">>>>, <<>>))
  /\ opCalls = <<OpCall("eq", 2)>>

\* --------------------------------------------------------------------- C29
RECURSIVE PruneItems(_)
\* The items without the filter leaves whose field is unmapped, at every
\* depth; the groups are kept, empty ones too.
PruneItems(items) ==
  IF items = <<>> THEN <<>>
  ELSE (IF Head(items).type = "filter"
        THEN (IF IsMapped(Head(items).field) THEN <<Head(items)>> ELSE <<>>)
        ELSE <<Group(Head(items).type, PruneItems(Head(items).items))>>)
       \o PruneItems(Tail(items))

\* What is left of the request's tree, compiled in strict mode; nothing is
\* compiled when the tree was one unmapped leaf.
StrictlyCompiledPruned ==
  LET left == PruneItems(<<Get(Request.filters)>>)
  IN IF left = <<>> THEN [expr |-> Absent, err |-> NoError, calls |-> <<>>]
     ELSE whereNodeToDrizzleExpr(left[1], config.fields, operatorsOf(config), TRUE)

\* C29: in permissive mode compiling a filter tree gives what deleting every
\* leaf on an unmapped field (whatever its operator, value and not flag, the
\* groups being kept) and compiling the rest in strict mode gives: the same
\* error or the same where, and the same primitive calls in the same order,
\* which are the calls of the mapped leaves alone.
C29_PermissiveIsPruneThenStrict ==
  (Compiled /\ PermissiveMode /\ HasFilters) =>
    LET strict == StrictlyCompiledPruned
        n == Len(strict.calls)
    IN /\ error = strict.err
       /\ Len(opCalls) >= n
       /\ SubSeq(opCalls, 1, n) = strict.calls
       /\ \A k \in (n + 1)..Len(opCalls) : opCalls[k].prim \in {"asc", "desc"}
       /\ error = NoError =>
            /\ Get(clauses).where = strict.expr
            /\ PrimitiveCalls(strict.calls) = LeafPrimitiveCalls(Len(FilterLeaves))

\* A permissive call has returned for And[unmapped $contains, negated $btw,
\* $eq]: the where is the one of And[negated $btw, $eq].
C29_Witness ==
  /\ pc = "done"
  /\ PermissiveMode
  /\ Request.filters = Some(Group("and", <<LeafContainsN, LeafBtwB, LeafEqA>>))
  /\ PruneItems(<<Get(Request.filters)>>) = <<Group("and", <<LeafBtwB, LeafEqA>>)>>
  /\ IsPresent(Get(clauses).where)
  /\ Get(clauses).where = StrictlyCompiledPruned.expr

\* --------------------------------------------------------------------- C24
\* The current call has finished and an earlier call k was given the same
\* request and the same configuration (field mapping included).
SameInputsAs(k) ==
  /\ pc \in {"done", "thrown"}
  /\ history[k].parsed = parsed
  /\ history[k].config = config

\* C24: a call given the same request, field mapping and configuration as a
\* call made before it, whatever calls were made in between, ends the same
\* way: the same error or an equal clause bundle, the same primitive calls and
\* the same sequence of query-builder calls; the aliases of its select do not
\* depend on the collisions counted by the earlier calls.
C24_NoStateAcrossCalls ==
  \A k \in 1..Len(history) :
    SameInputsAs(k) =>
      /\ history[k].error = error
      /\ history[k].clauses = clauses
      /\ history[k].opCalls = opCalls
      /\ history[k].builderCalls = builderCalls

\* Third call: the first call selected a.b alone, the second selected a_b
\* and a.b (a collision on the alias a_b), and the third selects a.b alone
\* again and has returned, with the alias a_b as in the first call.
C24_Witness ==
  /\ Len(history) = 2
  /\ SameInputsAs(1)
  /\ pc = "done"
  /\ Request.select = Some(<<PathAB>>)
  /\ history[2].parsed.pagination.select = Some(<<PathAB, PathA_B>>)
  /\ history[2].error = NoError
  /\ DOMAIN Get(Get(history[2].clauses).select) =
       {<<"a", "_", "b">>, <<"a", "_", "b", "_", "1">>}
  /\ DOMAIN Get(Get(clauses).select) = {<<"a", "_", "b">>}

====
